---- MODULE Spec2Model ----
(***************************************************************************)
(* Authentication and account-protection core of adonisjs-pg:              *)
(*   - TokenService / EmailVerificationService / PasswordService           *)
(*     (one-time tokens for e-mail verification and password reset),       *)
(*   - LoginProtectionService on top of RateLimiter,                       *)
(*   - the key-value cache (CacheService) both of them write to.           *)
(*                                                                         *)
(* Time is counted in units of 15 minutes: every duration of the sources   *)
(* (15 min, 30 min, 2 h, 24 h) is a whole number of units.                 *)
(* Every handler is one atomic action.                                     *)
(***************************************************************************)
EXTENDS Integers, Sequences, FiniteSets, TLC

(* ---------------------------------------------------------------------- *)
(* Program constants (durations in units of 15 minutes)                   *)
(* ---------------------------------------------------------------------- *)
MAX_ATTEMPTS == 5
WINDOW_MS == 1
BLOCK_TIME_MS == 2
EXTENDED_BLOCK_TIME_MS == 8
VERIFY_TTL == 96
RESET_TTL == 1
USER_CACHE_TTL == 4      \* '1h'
LIST_CACHE_TTL == 1      \* '10m': the entry is gone at the next instant of the clock

\* AppKeyService (durations in units of 30 seconds)
KEY_MAX_ATTEMPTS == 5    \* MAX_ATTEMPTS of AppKeyService
RATE_LIMIT_WINDOW == 2   \* 60 seconds
BLOCK_DURATION == 30     \* 900 seconds
RATE_TTL == 2            \* '1m'
BLOCK_TTL == 30          \* '15m'
ALL_KEYS_TTL == 20       \* '10m'
DAY == 2880

RATE_LIMIT_CONFIG ==
  [maxAttempts |-> MAX_ATTEMPTS, windowMs |-> WINDOW_MS, blockTimeMs |-> BLOCK_TIME_MS]

\* RateLimiter.getDefaultConfig(): rate_limiter.ts is not among the sources and
\* its specification leaves the three parameters open; the token flows depend
\* on them only through the answer of check.
getDefaultConfig ==
  [maxAttempts |-> 3, windowMs |-> WINDOW_MS, blockTimeMs |-> BLOCK_TIME_MS]

(* ---------------------------------------------------------------------- *)
(* Bounds of the model                                                    *)
(* ---------------------------------------------------------------------- *)
MaxTokens == 3       \* tokens generateSecureToken may hand out in one run
MaxSkew == 0         \* the token clock visits 0..MaxSkew and VERIFY_TTL
MaxTime == 8         \* last instant of the login clock
MaxCount == 5        \* cap of a rate-limiter counter
MaxIssued == 4       \* tokens the requests taken one await at a time may hand out
MaxWait == 2         \* last instant of the clock while requests are throttled
MaxKeys == 2         \* ids the table app_keys hands out in one run
MaxKeyTime == 3      \* last instant of the clock of the API-key service
MaxLen == 2          \* longest list findValidKey is given
CACHE_TTL == 4       \* env CACHE_TTL, two minutes
LOGGER_TTL == 2      \* env LOGGER_REDIS_TTL, one minute

Identifiers == {"alice"}             \* e-mail addresses / login identifiers
Ips == {"1.2.3.4", "5.6.7.8"}        \* client addresses of the login calls
TokenIps == {"1.2.3.4"}              \* client address of the token calls
Tokens == 1..MaxTokens
WrongGuess == 0                      \* a plaintext no request has generated
Forms == {"plain", "padded"}      \* as stored / with blanks and capitals
RawIds == Identifiers \X Forms
Purposes == {"verify", "reset"}
Scopes == {"verify", "reset", "login"}
RLKeys == Scopes \X Identifiers \X Ips
LoginKeys == {"login"} \X Identifiers \X Ips
TokenLimitKeys == Purposes \X Identifiers \X TokenIps
LoginTimes == 0..MaxTime
TokenTimes == (0..MaxSkew) \cup {VERIFY_TTL}

(* ---------------------------------------------------------------------- *)
(* State                                                                  *)
(* ---------------------------------------------------------------------- *)
VARIABLES
  now,           \* Date.now() / DateTime.now()
  tokenHash,     \* cache entries verify_email:<email> and reset:<email>
  rateLimit,     \* cache entries ratelimit:attempts:<scope>:<identifier>:<ip>
  accountBlock,  \* cache entries account:blocked:<identifier>
  users,         \* table users, one row per e-mail address
  userCache,     \* cache entries of sharedCache.user.userKey(id)
  listCache,     \* cache entry of sharedCache.user.listKey
  nextTok,       \* next value randomBytes(16) yields (fresh values: no collisions)
  issued,        \* history per token key: newest token, the one before, when, used
  failed,        \* history per identifier: failed logins, blocking failures
  streak,        \* history per login key: consecutive attempts inside one window
  last,          \* the most recent call and its outcome
  keyNow,        \* Date.now() of the API-key service, in units of 30 seconds
  keys,          \* table app_keys, one row per id
  activeCache,   \* cache entry active_app_keys
  allCache,      \* cache entry all_app_keys
  keyLimit,      \* cache entries rate_limit:<ip>:<key>
  keyLog,        \* sorted set LOGGER_KEY: score per member, Null when absent
  lookup,        \* the arguments of findValidKey
  keyLast,       \* the most recent call of the API-key service and its outcome
  blacklist,     \* table auth_deleteds: the column user_email of its rows
  accessTokens,  \* table auth_access_tokens: the number of rows of each user
  inflight,      \* confirm and request calls suspended at an await, per request
  granted        \* history per token limiter key: tokens issued inside one window

keyVars == <<keyNow, keys, activeCache, allCache, keyLimit, keyLog, lookup, keyLast>>

vars == <<now, tokenHash, rateLimit, accountBlock, users, userCache, listCache,
          nextTok, issued, failed, streak, last,
          keyNow, keys, activeCache, allCache, keyLimit, keyLog, lookup, keyLast,
          blacklist, accessTokens, inflight, granted>>

Null == -1       \* null / undefined of the sources

NoEntry == [set |-> FALSE, value |-> Null, expiresAt |-> 0]
NoLimit == [set |-> FALSE, attempts |-> 0, windowStart |-> 0,
            blockedUntil |-> Null, expiresAt |-> 0]
NoIssue == [tok |-> WrongGuess, prev |-> WrongGuess, at |-> 0, used |-> FALSE]
NoError == [message |-> "", status |-> 0]
NoFailed == [n |-> 0, at |-> Null, streakAt |-> Null, blockedAt |-> Null]
NoStreak == [n |-> 0, first |-> 0, at |-> 0]
Requests == {"r1", "r2"}             \* requests the server handles at a time

(* ---------------------------------------------------------------------- *)
(* CacheService (#start/cache): get / set with TTL / delete               *)
(* ---------------------------------------------------------------------- *)
CacheGet(entry) ==
  IF entry.set /\ now < entry.expiresAt THEN entry.value ELSE Null

CacheSet(value, ttl) ==
  [set |-> TRUE, value |-> value, expiresAt |-> now + ttl]

CacheDelete == NoEntry

(* ---------------------------------------------------------------------- *)
(* Identifier normalisation and cache keys                                *)
(* ---------------------------------------------------------------------- *)
\* email.trim().toLowerCase(): every written form of an address has one
\* normal form, the address as the users table stores it.
Normalize(raw) == raw[1]

getVerifyKey(email) == <<"verify_email", email>>
\* getResetKey that builds the key of the verification flow
getResetKeyShared(email) == <<"verify_email", email>>
getResetKey(email) == <<"reset", email>>
TokenKeys == {getVerifyKey(e) : e \in Identifiers} \cup {getResetKey(e) : e \in Identifiers}

PurposeKey(purpose, email) ==
  IF purpose = "verify" THEN getVerifyKey(email) ELSE getResetKey(email)

PurposeTTL(purpose) == IF purpose = "verify" THEN VERIFY_TTL ELSE RESET_TTL

(* ---------------------------------------------------------------------- *)
(* TokenService                                                           *)
(* ---------------------------------------------------------------------- *)
\* createHash('sha256').update(token).digest('hex'): one-way and, on the
\* tokens of a run, free of collisions; a digest is never a plaintext.
HashBase == 100
Sha256(token) == HashBase + token

generateSecureToken == [token |-> nextTok, hash |-> Sha256(nextTok)]

\* storeTokenHash that keeps a digest which is still pending
storeTokenHashKeepPending(key, hash, ttl) ==
  IF CacheGet(tokenHash[key]) # Null
    THEN tokenHash
    ELSE [tokenHash EXCEPT ![key] = CacheSet(hash, ttl)]

storeTokenHash(key, hash, ttl) ==
  [tokenHash EXCEPT ![key] = CacheSet(hash, ttl)]

\* the error of the taxonomy: 'Token invalido ou expirado', status 400
InvalidOrExpiredToken == [message |-> "Token invalido ou expirado", status |-> 400]

\* thrown when the stored digest is absent (token_service.ts line 37)
AbsentTokenError == [message |-> "Token invalido ou expirado", status |-> 400]

\* a mismatch reported as a failed authentication instead
MismatchTokenErrorDistinct == [message |-> "Token invalido", status |-> 401]

\* thrown when the digests differ (token_service.ts line 43)
MismatchTokenError == [message |-> "Token invalido ou expirado", status |-> 400]

\* validateToken without the comparison of the digests
validateTokenAnyDigest(token, cacheKey) ==
  LET storedHash == CacheGet(tokenHash[cacheKey])
  IN  IF storedHash = Null
        THEN [ok |-> FALSE, cause |-> "absent", err |-> AbsentTokenError]
        ELSE [ok |-> TRUE, cause |-> "none", err |-> NoError]

\* the outcome of validateToken: ok, or the exception it throws
validateToken(token, cacheKey) ==
  LET storedHash == CacheGet(tokenHash[cacheKey])
      providedHash == Sha256(token)
  IN  IF storedHash = Null
        THEN [ok |-> FALSE, cause |-> "absent", err |-> AbsentTokenError]
        ELSE IF storedHash # providedHash
          THEN [ok |-> FALSE, cause |-> "mismatch", err |-> MismatchTokenError]
          ELSE [ok |-> TRUE, cause |-> "none", err |-> NoError]

(* ---------------------------------------------------------------------- *)
(* RateLimiter (#services/security/rate_limiter), after its specification *)
(* state per key: {attempts, windowStart, blockedUntil} with a TTL        *)
(* ---------------------------------------------------------------------- *)
RLLive(st) == st.set /\ now < st.expiresAt

RLBlocked(st) == RLLive(st) /\ st.blockedUntil # Null /\ now < st.blockedUntil

RLWindowOpen(st, cfg) == RLLive(st) /\ now - st.windowStart <= cfg.windowMs

Max0(n) == IF n < 0 THEN 0 ELSE n

\* check that still allows the request at maxAttempts attempts
RateLimiterCheckInclusive(key, cfg) ==
  LET st == rateLimit[key]
  IN  IF ~RLWindowOpen(st, cfg)
        THEN [allowed |-> TRUE, attemptsRemaining |-> cfg.maxAttempts, blockedUntil |-> Null]
        ELSE [allowed |-> st.attempts <= cfg.maxAttempts,
              attemptsRemaining |-> Max0(cfg.maxAttempts - st.attempts),
              blockedUntil |-> Null]

\* check({identifier, ip, config}) -> {allowed, attemptsRemaining, blockedUntil?}
RateLimiterCheck(key, cfg) ==
  LET st == rateLimit[key]
  IN  IF RLBlocked(st)
        THEN [allowed |-> FALSE, attemptsRemaining |-> 0, blockedUntil |-> st.blockedUntil]
        ELSE IF ~RLWindowOpen(st, cfg)
          THEN [allowed |-> TRUE, attemptsRemaining |-> cfg.maxAttempts, blockedUntil |-> Null]
          ELSE [allowed |-> st.attempts < cfg.maxAttempts,
                attemptsRemaining |-> Max0(cfg.maxAttempts - st.attempts),
                blockedUntil |-> Null]

\* recordAttempt that gives a blocking record the TTL of the window
RateLimiterRecordAttemptWindowTTL(key, cfg) ==
  LET st == rateLimit[key]
      continues == RLBlocked(st) \/ RLWindowOpen(st, cfg)
      n == IF continues THEN st.attempts + 1 ELSE 1
      ws == IF continues THEN st.windowStart ELSE now
  IN  [set |-> TRUE, attempts |-> n, windowStart |-> ws,
       blockedUntil |-> IF n >= cfg.maxAttempts THEN now + cfg.blockTimeMs ELSE Null,
       expiresAt |-> now + cfg.windowMs]

\* recordAttempt({identifier, ip, config}): the state it leaves under the key
RateLimiterRecordAttempt(key, cfg) ==
  LET st == rateLimit[key]
      continues == RLBlocked(st) \/ RLWindowOpen(st, cfg)
      n == IF continues THEN st.attempts + 1 ELSE 1
      ws == IF continues THEN st.windowStart ELSE now
  IN  IF n >= cfg.maxAttempts
        THEN [set |-> TRUE, attempts |-> n, windowStart |-> ws,
              blockedUntil |-> now + cfg.blockTimeMs, expiresAt |-> now + cfg.blockTimeMs]
        ELSE [set |-> TRUE, attempts |-> n, windowStart |-> ws,
              blockedUntil |-> Null, expiresAt |-> now + cfg.windowMs]

\* clearAttempts(identifier, ip): deletes the state entirely
RateLimiterClearAttempts == NoLimit

\* the counter stays below the cap of the model
CanRecord(key) == rateLimit[key].attempts < MaxCount

(* ---------------------------------------------------------------------- *)
(* Users table and user cache                                             *)
(* ---------------------------------------------------------------------- *)
Passwords == {"secret"}

NoUser == [exists |-> FALSE, isActive |-> FALSE, isDeleted |-> FALSE,
           emailVerifiedAt |-> Null, password |-> "", email |-> "", role |-> "none",
           lastLoginAt |-> Null]
NewUser == [exists |-> TRUE, isActive |-> TRUE, isDeleted |-> FALSE,
            emailVerifiedAt |-> Null, password |-> "", email |-> "", role |-> "user",
            lastLoginAt |-> Null]
\* the row of the user registered with the e-mail address id
UserRow(id) == [NewUser EXCEPT !.email = id]
NoUserEntry == [set |-> FALSE, value |-> NoUser, expiresAt |-> 0]
NoList == [i \in Identifiers |-> NoUser]
NoListEntry == [set |-> FALSE, value |-> NoList, expiresAt |-> 0]
\* a request that is not inside a call
Idle == [pc |-> "idle", purpose |-> "none", email |-> "", ip |-> "", tok |-> 0,
         password |-> "", mutated |-> FALSE, attemptsRemaining |-> 0, user |-> NoUser]

\* User.query().where('email', email).first(): the row that holds the address
UserByEmail(email) ==
  IF users[email].exists /\ users[email].email = email THEN users[email] ELSE NoUser

\* user.serialize(): the snapshot of a row, without the password
Serialize(u) == IF u.exists THEN [u EXCEPT !.password = "omitted"] ELSE NoUser

\* an entry the cache still serves
CacheLive(entry) == entry.set /\ now < entry.expiresAt

\* User.query().where('is_deleted', false), serialized
CurrentList ==
  [i \in Identifiers |->
     IF users[i].exists /\ ~users[i].isDeleted THEN Serialize(users[i]) ELSE NoUser]

\* sharedCache.user.invalidateUser(id): the entry of the user and the entry
\* of the list are deleted; invalidateUser() deletes the entry of the list
invalidateUser(cache, id) == [cache EXCEPT ![id] = NoUserEntry]

invalidateList == NoListEntry

(* ---------------------------------------------------------------------- *)
(* Outcome of a call                                                      *)
(* ---------------------------------------------------------------------- *)
NotFoundError == [message |-> "Row not found", status |-> 404]
InactiveError == [message |-> "Usuario inativo", status |-> 403]

NoCall ==
  [op |-> "none", purpose |-> "none", id |-> "", ip |-> "", tok |-> WrongGuess,
   ok |-> FALSE, err |-> NoError, cause |-> "none", mail |-> "none", success |-> FALSE,
   rlChecked |-> FALSE, allowed |-> FALSE, isBlocked |-> FALSE,
   attemptsRemaining |-> 0, blockedUntil |-> Null, cleared |-> 0, user |-> NoUser]

Call(op, purpose, id, ip, tok) ==
  [NoCall EXCEPT !.op = op, !.purpose = purpose, !.id = id, !.ip = ip,
                 !.tok = tok]

Thrown(call, cause, err) == [call EXCEPT !.ok = FALSE, !.cause = cause, !.err = err]

\* EmailService.send (#services/app_email_service), awaited by its callers
\* outside any try: when the dispatch fails the caller throws at that point.
\* call is the outcome the caller reaches when the dispatch succeeds.
SendError == [message |-> "send failed", status |-> 500]

EmailServiceSend(call, kind, sent) ==
  IF sent THEN [call EXCEPT !.mail = kind]
          ELSE Thrown([call EXCEPT !.mail = kind], "mail", SendError)

UnchangedKeys == UNCHANGED keyVars
UnchangedLogin ==
  UNCHANGED <<accountBlock, failed, streak, blacklist, accessTokens, inflight, granted>> /\ UnchangedKeys
UnchangedToken ==
  UNCHANGED <<tokenHash, users, userCache, listCache, nextTok, issued, blacklist,
              accessTokens, inflight, granted>>
  /\ UnchangedKeys

(* ---------------------------------------------------------------------- *)
(* History of the tokens of a key (not program state)                     *)
(* ---------------------------------------------------------------------- *)
Issue(key, token) ==
  [issued EXCEPT ![key] = [tok |-> token, prev |-> issued[key].tok, at |-> now, used |-> FALSE]]

Use(key, token) ==
  [issued EXCEPT ![key].used = (issued[key].tok = token) \/ issued[key].used]

(* ---------------------------------------------------------------------- *)
(* EmailVerificationService                                               *)
(* ---------------------------------------------------------------------- *)
\* cleanupAfterVerification that leaves the digest in the cache
cleanupAfterVerificationKeepDigest(email, ip) ==
  /\ userCache' = invalidateUser(userCache, email)
  /\ listCache' = invalidateList
  /\ tokenHash' = tokenHash
  /\ rateLimit' = [rateLimit EXCEPT ![<<"verify", email, ip>>] = RateLimiterClearAttempts]

\* cleanupAfterVerification(userId, email, ip)
cleanupAfterVerification(email, ip) ==
  /\ userCache' = invalidateUser(userCache, email)
  /\ listCache' = invalidateList
  /\ tokenHash' = [tokenHash EXCEPT ![getVerifyKey(email)] = CacheDelete]
  /\ rateLimit' = [rateLimit EXCEPT ![<<"verify", email, ip>>] = RateLimiterClearAttempts]

\* requestEmailVerification that records the attempt before it looks at the answer
requestEmailVerificationCountDenied(raw, ip, sent) ==
  LET normalizedEmail == Normalize(raw)
      rlKey == <<"verify", normalizedEmail, ip>>
      rateLimitCheck == RateLimiterCheck(rlKey, getDefaultConfig)
      gen == generateSecureToken
      call == Call("requestEmailVerification", "verify", normalizedEmail, ip, WrongGuess)
  IN  /\ CanRecord(rlKey)
      /\ rateLimit' = [rateLimit EXCEPT
                         ![rlKey] = RateLimiterRecordAttempt(rlKey, getDefaultConfig)]
      /\ IF ~rateLimitCheck.allowed
           THEN /\ last' = [call EXCEPT !.ok = FALSE, !.rlChecked = TRUE]
                /\ UNCHANGED <<tokenHash, nextTok, issued>>
           ELSE /\ nextTok <= MaxTokens
                /\ nextTok' = nextTok + 1
                /\ issued' = Issue(getVerifyKey(normalizedEmail), gen.token)
                /\ tokenHash' = storeTokenHash(getVerifyKey(normalizedEmail), gen.hash, VERIFY_TTL)
                /\ last' = EmailServiceSend(
                              [call EXCEPT !.ok = TRUE, !.rlChecked = TRUE, !.tok = gen.token,
                                           !.allowed = TRUE],
                              "verification", sent)
      /\ UNCHANGED <<now, users, userCache, listCache>>
      /\ UnchangedLogin

\* requestEmailVerification({user, ip}); raw is user.email || user.username,
\* sent tells whether EmailService.send delivers
requestEmailVerification(raw, ip, sent) ==
  LET normalizedEmail == Normalize(raw)
      rlKey == <<"verify", normalizedEmail, ip>>
      rateLimitCheck == RateLimiterCheck(rlKey, getDefaultConfig)
      gen == generateSecureToken
      call == Call("requestEmailVerification", "verify", normalizedEmail, ip, WrongGuess)
  IN  /\ IF ~rateLimitCheck.allowed
           THEN /\ last' = [call EXCEPT !.ok = FALSE, !.rlChecked = TRUE]
                /\ UNCHANGED <<tokenHash, rateLimit, nextTok, issued>>
           ELSE /\ nextTok <= MaxTokens
                /\ rateLimit' = [rateLimit EXCEPT
                                   ![rlKey] = RateLimiterRecordAttempt(rlKey, getDefaultConfig)]
                /\ nextTok' = nextTok + 1
                /\ issued' = Issue(getVerifyKey(normalizedEmail), gen.token)
                /\ tokenHash' = storeTokenHash(getVerifyKey(normalizedEmail), gen.hash, VERIFY_TTL)
                /\ last' = EmailServiceSend(
                              [call EXCEPT !.ok = TRUE, !.rlChecked = TRUE, !.tok = gen.token,
                                           !.allowed = TRUE],
                              "verification", sent)
      /\ UNCHANGED <<now, users, userCache, listCache>>
      /\ UnchangedLogin

\* verifyEmail({email, token, ip})
\* verifyEmail that counts a refused token as an attempt of the limiter
verifyEmailCountGuess(raw, token, ip) ==
  LET normalizedEmail == Normalize(raw)
      v == validateToken(token, getVerifyKey(normalizedEmail))
      call == Call("verifyEmail", "verify", normalizedEmail, ip, token)
      rlKey == <<"verify", normalizedEmail, ip>>
  IN  /\ IF ~v.ok
           THEN /\ last' = Thrown(call, v.cause, v.err)
                /\ rateLimit' = [rateLimit EXCEPT
                                   ![rlKey] = RateLimiterRecordAttempt(rlKey, getDefaultConfig)]
                /\ UNCHANGED <<tokenHash, users, userCache, listCache, issued>>
           ELSE IF ~UserByEmail(normalizedEmail).exists
             THEN /\ last' = Thrown(call, "notfound", NotFoundError)
                  /\ UNCHANGED <<tokenHash, rateLimit, users, userCache, listCache, issued>>
             ELSE /\ users' = [users EXCEPT ![normalizedEmail].emailVerifiedAt = now]
                  /\ cleanupAfterVerification(normalizedEmail, ip)
                  /\ issued' = Use(getVerifyKey(normalizedEmail), token)
                  /\ last' = [call EXCEPT !.ok = TRUE]
      /\ UNCHANGED <<now, nextTok>>
      /\ UnchangedLogin

verifyEmail(raw, token, ip) ==
  LET normalizedEmail == Normalize(raw)
      v == validateToken(token, getVerifyKey(normalizedEmail))
      call == Call("verifyEmail", "verify", normalizedEmail, ip, token)
  IN  /\ IF ~v.ok
           THEN /\ last' = Thrown(call, v.cause, v.err)
                /\ UNCHANGED <<tokenHash, rateLimit, users, userCache, listCache, issued>>
           ELSE IF ~UserByEmail(normalizedEmail).exists
             THEN /\ last' = Thrown(call, "notfound", NotFoundError)
                  /\ UNCHANGED <<tokenHash, rateLimit, users, userCache, listCache, issued>>
             ELSE /\ users' = [users EXCEPT ![normalizedEmail].emailVerifiedAt = now]
                  /\ cleanupAfterVerification(normalizedEmail, ip)
                  /\ issued' = Use(getVerifyKey(normalizedEmail), token)
                  /\ last' = [call EXCEPT !.ok = TRUE]
      /\ UNCHANGED <<now, nextTok>>
      /\ UnchangedLogin

(* ---------------------------------------------------------------------- *)
(* PasswordService                                                        *)
(* ---------------------------------------------------------------------- *)
\* cleanupAfterReset(userId, email, ip)
cleanupAfterReset(email, ip) ==
  /\ userCache' = invalidateUser(userCache, email)
  /\ listCache' = invalidateList
  /\ tokenHash' = [tokenHash EXCEPT ![getResetKey(email)] = CacheDelete]
  /\ rateLimit' = [rateLimit EXCEPT ![<<"reset", email, ip>>] = RateLimiterClearAttempts]

\* requestPasswordReset that asks and feeds the limiter before it looks the
\* user up
requestPasswordResetLimitFirst(raw, ip, sent) ==
  LET normalizedEmail == Normalize(raw)
      user == UserByEmail(normalizedEmail)
      rlKey == <<"reset", normalizedEmail, ip>>
      rateLimitCheck == RateLimiterCheck(rlKey, getDefaultConfig)
      gen == generateSecureToken
      call == Call("requestPasswordReset", "reset", normalizedEmail, ip, WrongGuess)
  IN  /\ IF ~rateLimitCheck.allowed
           THEN /\ last' = EmailServiceSend([call EXCEPT !.ok = FALSE, !.rlChecked = TRUE],
                                             "blocked", sent)
                /\ UNCHANGED <<tokenHash, rateLimit, nextTok, issued>>
           ELSE /\ CanRecord(rlKey)
                /\ rateLimit' = [rateLimit EXCEPT
                                   ![rlKey] = RateLimiterRecordAttempt(rlKey, getDefaultConfig)]
                /\ IF ~user.exists
                     THEN /\ last' = Thrown(call, "notfound", NotFoundError)
                          /\ UNCHANGED <<tokenHash, nextTok, issued>>
                     ELSE IF ~user.isActive \/ user.isDeleted
                       THEN /\ last' = Thrown(call, "inactive", InactiveError)
                            /\ UNCHANGED <<tokenHash, nextTok, issued>>
                       ELSE /\ nextTok <= MaxTokens
                            /\ nextTok' = nextTok + 1
                            /\ issued' = Issue(getResetKey(normalizedEmail), gen.token)
                            /\ tokenHash' = storeTokenHash(getResetKey(normalizedEmail),
                                                           gen.hash, RESET_TTL)
                            /\ last' = EmailServiceSend(
                                          [call EXCEPT !.ok = TRUE, !.rlChecked = TRUE,
                                                       !.tok = gen.token, !.allowed = TRUE],
                                          "reset", sent)
      /\ UNCHANGED <<now, users, userCache, listCache>>
      /\ UnchangedLogin

\* requestPasswordReset({email, ip})
requestPasswordReset(raw, ip, sent) ==
  LET normalizedEmail == Normalize(raw)
      user == UserByEmail(normalizedEmail)
      rlKey == <<"reset", normalizedEmail, ip>>
      rateLimitCheck == RateLimiterCheck(rlKey, getDefaultConfig)
      gen == generateSecureToken
      call == Call("requestPasswordReset", "reset", normalizedEmail, ip, WrongGuess)
  IN  /\ IF ~user.exists
           THEN /\ last' = Thrown(call, "notfound", NotFoundError)
                /\ UNCHANGED <<tokenHash, rateLimit, nextTok, issued>>
           ELSE IF ~user.isActive \/ user.isDeleted
             THEN /\ last' = Thrown(call, "inactive", InactiveError)
                  /\ UNCHANGED <<tokenHash, rateLimit, nextTok, issued>>
             ELSE IF ~rateLimitCheck.allowed
               THEN /\ last' = EmailServiceSend([call EXCEPT !.ok = FALSE, !.rlChecked = TRUE],
                                                 "blocked", sent)
                    /\ UNCHANGED <<tokenHash, rateLimit, nextTok, issued>>
               ELSE /\ nextTok <= MaxTokens
                    /\ rateLimit' = [rateLimit EXCEPT
                                       ![rlKey] = RateLimiterRecordAttempt(rlKey, getDefaultConfig)]
                    /\ nextTok' = nextTok + 1
                    /\ issued' = Issue(getResetKey(normalizedEmail), gen.token)
                    /\ tokenHash' = storeTokenHash(getResetKey(normalizedEmail), gen.hash, RESET_TTL)
                    /\ last' = EmailServiceSend(
                                  [call EXCEPT !.ok = TRUE, !.rlChecked = TRUE,
                                               !.tok = gen.token, !.allowed = TRUE],
                                  "reset", sent)
      /\ UNCHANGED <<now, users, userCache, listCache>>
      /\ UnchangedLogin

\* resetPassword that does not look at isActive / isDeleted
resetPasswordAnyAccount(raw, token, password, ip, sent) ==
  LET normalizedEmail == Normalize(raw)
      user == UserByEmail(normalizedEmail)
      v == validateToken(token, getResetKey(normalizedEmail))
      call == Call("resetPassword", "reset", normalizedEmail, ip, token)
  IN  /\ IF ~v.ok
           THEN /\ last' = Thrown(call, v.cause, v.err)
                /\ UNCHANGED <<tokenHash, rateLimit, users, userCache, listCache, issued>>
           ELSE IF ~user.exists
             THEN /\ last' = Thrown(call, "notfound", NotFoundError)
                  /\ UNCHANGED <<tokenHash, rateLimit, users, userCache, listCache, issued>>
             ELSE /\ users' = [users EXCEPT ![normalizedEmail].password = password]
                  /\ cleanupAfterReset(normalizedEmail, ip)
                  /\ issued' = Use(getResetKey(normalizedEmail), token)
                  /\ last' = EmailServiceSend([call EXCEPT !.ok = TRUE], "success", sent)
      /\ UNCHANGED <<now, nextTok>>
      /\ UnchangedLogin

\* resetPassword that sends the notification before it saves the password
resetPasswordSendFirst(raw, token, password, ip, sent) ==
  LET normalizedEmail == Normalize(raw)
      user == UserByEmail(normalizedEmail)
      v == validateToken(token, getResetKey(normalizedEmail))
      call == Call("resetPassword", "reset", normalizedEmail, ip, token)
  IN  /\ IF ~v.ok
           THEN /\ last' = Thrown(call, v.cause, v.err)
                /\ UNCHANGED <<tokenHash, rateLimit, users, userCache, listCache, issued>>
           ELSE IF ~user.exists
             THEN /\ last' = Thrown(call, "notfound", NotFoundError)
                  /\ UNCHANGED <<tokenHash, rateLimit, users, userCache, listCache, issued>>
             ELSE IF ~user.isActive \/ user.isDeleted
               THEN /\ last' = Thrown(call, "inactive", InactiveError)
                    /\ UNCHANGED <<tokenHash, rateLimit, users, userCache, listCache, issued>>
               ELSE IF ~sent
                 THEN /\ last' = EmailServiceSend([call EXCEPT !.ok = TRUE], "success", sent)
                      /\ UNCHANGED <<tokenHash, rateLimit, users, userCache, listCache, issued>>
                 ELSE /\ users' = [users EXCEPT ![normalizedEmail].password = password]
                      /\ cleanupAfterReset(normalizedEmail, ip)
                      /\ issued' = Use(getResetKey(normalizedEmail), token)
                      /\ last' = EmailServiceSend([call EXCEPT !.ok = TRUE], "success", sent)
      /\ UNCHANGED <<now, nextTok>>
      /\ UnchangedLogin

\* resetPassword({email, token, password, ip}); sent: EmailService.send delivers
resetPassword(raw, token, password, ip, sent) ==
  LET normalizedEmail == Normalize(raw)
      user == UserByEmail(normalizedEmail)
      v == validateToken(token, getResetKey(normalizedEmail))
      call == Call("resetPassword", "reset", normalizedEmail, ip, token)
  IN  /\ IF ~v.ok
           THEN /\ last' = Thrown(call, v.cause, v.err)
                /\ UNCHANGED <<tokenHash, rateLimit, users, userCache, listCache, issued>>
           ELSE IF ~user.exists
             THEN /\ last' = Thrown(call, "notfound", NotFoundError)
                  /\ UNCHANGED <<tokenHash, rateLimit, users, userCache, listCache, issued>>
             ELSE IF ~user.isActive \/ user.isDeleted
               THEN /\ last' = Thrown(call, "inactive", InactiveError)
                    /\ UNCHANGED <<tokenHash, rateLimit, users, userCache, listCache, issued>>
               ELSE /\ users' = [users EXCEPT ![normalizedEmail].password = password]
                    /\ cleanupAfterReset(normalizedEmail, ip)
                    /\ issued' = Use(getResetKey(normalizedEmail), token)
                    /\ last' = EmailServiceSend([call EXCEPT !.ok = TRUE], "success", sent)
      /\ UNCHANGED <<now, nextTok>>
      /\ UnchangedLogin

(* ---------------------------------------------------------------------- *)
(* UserService                                                            *)
(* ---------------------------------------------------------------------- *)
\* update that saves the row and leaves the cache alone
updateKeepCache(id, active) ==
  /\ users[id].exists
  /\ users' = [users EXCEPT ![id].isActive = active]
  /\ last' = [Call("update", "none", id, "", WrongGuess) EXCEPT !.ok = TRUE]
  /\ UNCHANGED <<now, tokenHash, rateLimit, userCache, listCache, nextTok, issued>>
  /\ UnchangedLogin

\* update(user, payload) with payload {isActive}
update(id, active) ==
  /\ users[id].exists
  /\ users' = [users EXCEPT ![id].isActive = active]
  /\ userCache' = invalidateUser(userCache, id)
  /\ listCache' = invalidateList
  /\ last' = [Call("update", "none", id, "", WrongGuess) EXCEPT !.ok = TRUE]
  /\ UNCHANGED <<now, tokenHash, rateLimit, nextTok, issued>>
  /\ UnchangedLogin

\* delete(user)
delete(id) ==
  /\ users[id].exists
  /\ userCache' = invalidateUser(userCache, id)
  /\ listCache' = invalidateList
  /\ users' = [users EXCEPT ![id] = NoUser]
  /\ last' = [Call("delete", "none", id, "", WrongGuess) EXCEPT !.ok = TRUE]
  /\ UNCHANGED <<now, tokenHash, rateLimit, nextTok, issued>>
  /\ UnchangedLogin

\* UserAnonymizationService.anonymize(user): the row is scrubbed and saved,
\* revokeAllTokens invalidates the cache, then BlacklistService.addToBlacklist
\* refuses the user, whose isDeleted is set by now, and the call throws
DeletedEmail(id) == "deleted_" \o id \o "@internal.system"

AnonymizedRow(id) ==
  [exists |-> TRUE, isActive |-> FALSE, isDeleted |-> TRUE, emailVerifiedAt |-> Null,
   password |-> "random", email |-> DeletedEmail(id), role |-> "deleted",
   lastLoginAt |-> Null]

\* TokenService.revokeAllAccessTokens(user): every row of the user is deleted
revokeAllAccessTokens(id) == [accessTokens EXCEPT ![id] = 0]

\* TokenService.createAccessToken(user): the old rows go, one new row is made
createAccessToken(id) == [revokeAllAccessTokens(id) EXCEPT ![id] = 1]

BlacklistError == [message |-> "Falha ao adicionar usuario a lista negra", status |-> 500]

\* hashValue(value): createHash('sha256').update(value).digest('hex')
hashValue(value) == "sha256:" \o value

\* isBlacklisted({email})
isBlacklisted(email) == hashValue(email) \in blacklist

\* addToBlacklist(user): the rows of the table afterwards, and whether the
\* call returns; a user that is missing or has isDeleted set is refused, and
\* every error leaves as the same status 500
addToBlacklist(user) ==
  IF ~user.exists \/ user.isDeleted
    THEN [ok |-> FALSE, rows |-> blacklist]
    ELSE [ok |-> TRUE, rows |-> blacklist \cup {hashValue(user.email)}]

anonymize(id) ==
  LET user == AnonymizedRow(id)
      added == addToBlacklist(user)
      call == Call("anonymize", "none", id, "", WrongGuess)
  IN  /\ users[id].exists
      /\ users' = [users EXCEPT ![id] = user]
      /\ userCache' = invalidateUser(userCache, id)
      /\ listCache' = invalidateList
      /\ blacklist' = added.rows
      /\ last' = IF added.ok THEN [call EXCEPT !.ok = TRUE]
                             ELSE Thrown(call, "blacklist", BlacklistError)
      /\ accessTokens' = revokeAllAccessTokens(id)
      /\ UNCHANGED <<now, tokenHash, rateLimit, nextTok, issued>>
      /\ UNCHANGED <<accountBlock, failed, streak, inflight, granted>>
      /\ UnchangedKeys

\* AuthService.addToBlacklist(user)
callAddToBlacklist(id) ==
  LET added == addToBlacklist(users[id])
      call == Call("addToBlacklist", "none", id, "", WrongGuess)
  IN  /\ blacklist' = added.rows
      /\ last' = IF added.ok THEN [call EXCEPT !.ok = TRUE]
                             ELSE Thrown(call, "blacklist", BlacklistError)
      /\ UNCHANGED <<now, tokenHash, rateLimit, users, userCache, listCache, nextTok, issued>>
      /\ UNCHANGED <<accountBlock, failed, streak, accessTokens, inflight, granted>>
      /\ UnchangedKeys

(* ---------------------------------------------------------------------- *)
(* The clock                                                              *)
(* ---------------------------------------------------------------------- *)
\* the histories keep what can still matter at instant t: a streak short of
\* the threshold while its window is open, the instant of a failure for the
\* two hours that follow it
StreakAt(h, t) ==
  IF h.n > 0 /\ h.n < MAX_ATTEMPTS /\ t - h.first >= WINDOW_MS THEN NoStreak ELSE h

Recent(at, t) == IF at # Null /\ t >= at + EXTENDED_BLOCK_TIME_MS THEN Null ELSE at

FailedAt(f, t) ==
  [n |-> f.n, at |-> Recent(f.at, t), streakAt |-> Recent(f.streakAt, t),
   blockedAt |-> Recent(f.blockedAt, t)]

\* the cache drops an entry when its TTL has run out
Expire(entry, none, t) == IF entry.set /\ entry.expiresAt <= t THEN none ELSE entry

Tick(t) ==
  /\ t > now
  /\ now' = t
  /\ tokenHash' = [k \in TokenKeys |-> Expire(tokenHash[k], NoEntry, t)]
  /\ rateLimit' = [k \in RLKeys |-> Expire(rateLimit[k], NoLimit, t)]
  /\ accountBlock' = [i \in Identifiers |-> Expire(accountBlock[i], NoEntry, t)]
  /\ userCache' = [i \in Identifiers |-> Expire(userCache[i], NoUserEntry, t)]
  /\ listCache' = Expire(listCache, NoListEntry, t)
  /\ streak' = [k \in LoginKeys |-> StreakAt(streak[k], t)]
  /\ failed' = [i \in Identifiers |-> FailedAt(failed[i], t)]
  /\ UNCHANGED <<users, nextTok, issued, last, blacklist, accessTokens, inflight, granted>>
  /\ UnchangedKeys

(* ---------------------------------------------------------------------- *)
(* AppKeyService: the table app_keys behind its two caches, the limiter   *)
(* per (ip, key), the log of failed attempts                              *)
(* ---------------------------------------------------------------------- *)
KeyIds == 1..MaxKeys
Secrets == {"a", "b"}
KeyIps == {"9.9.9.9"}
KeyTimes == 0..MaxKeyTime
Days == {1}

NoKey == [created |-> FALSE, exists |-> FALSE, value |-> "", isActive |-> FALSE,
          expiresAt |-> Null]
NoKeys == [i \in KeyIds |-> NoKey]
NoKeysEntry == [set |-> FALSE, value |-> NoKeys, expiresAt |-> 0]
NoRate == [set |-> FALSE, attempts |-> 0, firstAttempt |-> 0, blockedUntil |-> Null,
           expiresAt |-> 0]
NoKeyCall == [op |-> "none", id |-> 0, ip |-> "", key |-> "", ok |-> FALSE,
              success |-> FALSE, limited |-> FALSE, found |-> 0, keys |-> NoKeys]

KeyCall(op, id, ip, key) == [NoKeyCall EXCEPT !.op = op, !.id = id, !.ip = ip, !.key = key]

\* cache.get / cache.set of @adonisjs/cache on the clock of the service
KeyCacheLive(entry) == entry.set /\ keyNow < entry.expiresAt

KeyCacheSet(value, ttl) == [set |-> TRUE, value |-> value, expiresAt |-> keyNow + ttl]

UnchangedMain ==
  UNCHANGED <<now, tokenHash, rateLimit, accountBlock, users, userCache, listCache,
              nextTok, issued, failed, streak, last, blacklist,
              accessTokens, inflight, granted>>

\* calculateExpiration(days)
calculateExpiration(days) == keyNow + days * DAY

\* isExpired(key) that counts the instant of expiry as expired
isExpiredInclusive(key) ==
  IF key.expiresAt = Null THEN FALSE ELSE key.expiresAt <= keyNow

\* isExpired(key)
isExpired(key) ==
  IF key.expiresAt = Null THEN FALSE ELSE key.expiresAt < keyNow

\* createHash('sha256').update(v).digest(): free of collisions
KeyDigest(v) == "sha256:" \o v

\* safeCompare(expected, provided)
safeCompare(expected, provided) == KeyDigest(expected) = KeyDigest(provided)

\* clearActiveCache(), clearAllCache()
clearActiveCache == NoKeysEntry
clearAllCache == NoKeysEntry

\* AppKey.all()
AllKeys == [i \in KeyIds |-> IF keys[i].exists THEN keys[i] ELSE NoKey]

\* the id the table gives the next row
NextKeyId == CHOOSE i \in KeyIds : ~keys[i].created /\ \A j \in KeyIds : j < i => keys[j].created

\* db_create({value, isActive, daysExpires})
db_create(value, active, days) ==
  /\ \E i \in KeyIds : ~keys[i].created
  /\ keys' = [keys EXCEPT ![NextKeyId] =
                [created |-> TRUE, exists |-> TRUE, value |-> value, isActive |-> active,
                 expiresAt |-> calculateExpiration(days)]]
  /\ activeCache' = clearActiveCache
  /\ allCache' = clearAllCache
  /\ keyLast' = [KeyCall("db_create", NextKeyId, "", value) EXCEPT !.ok = TRUE]
  /\ UNCHANGED <<keyNow, keyLimit, keyLog, lookup>>
  /\ UnchangedMain

\* db_update({id, payload}); days = Null: the payload has no daysExpires
db_update(id, active, days) ==
  /\ IF ~keys[id].exists
       THEN /\ keyLast' = KeyCall("db_update", id, "", "")
            /\ UNCHANGED <<keys, activeCache, allCache>>
       ELSE /\ keys' = [keys EXCEPT ![id].isActive = active,
                                    ![id].expiresAt = IF days = Null
                                                        THEN keys[id].expiresAt
                                                        ELSE calculateExpiration(days)]
            /\ activeCache' = clearActiveCache
            /\ allCache' = clearAllCache
            /\ keyLast' = [KeyCall("db_update", id, "", "") EXCEPT !.ok = TRUE]
  /\ UNCHANGED <<keyNow, keyLimit, keyLog, lookup>>
  /\ UnchangedMain

\* db_delete({id})
db_delete(id) ==
  /\ IF ~keys[id].exists
       THEN /\ keyLast' = KeyCall("db_delete", id, "", "")
            /\ UNCHANGED <<keys, activeCache, allCache>>
       ELSE /\ keys' = [keys EXCEPT ![id] = [NoKey EXCEPT !.created = TRUE]]
            /\ activeCache' = clearActiveCache
            /\ allCache' = clearAllCache
            /\ keyLast' = [KeyCall("db_delete", id, "", "") EXCEPT !.ok = TRUE]
  /\ UNCHANGED <<keyNow, keyLimit, keyLog, lookup>>
  /\ UnchangedMain

\* db_list()
db_list ==
  /\ IF KeyCacheLive(allCache)
       THEN /\ keyLast' = [KeyCall("db_list", 0, "", "") EXCEPT
                             !.ok = TRUE, !.keys = allCache.value]
            /\ UNCHANGED allCache
       ELSE /\ allCache' = KeyCacheSet(AllKeys, ALL_KEYS_TTL)
            /\ keyLast' = [KeyCall("db_list", 0, "", "") EXCEPT !.ok = TRUE, !.keys = AllKeys]
  /\ UNCHANGED <<keyNow, keys, activeCache, keyLimit, keyLog, lookup>>
  /\ UnchangedMain

\* step 1 of listActive that spares a key at the instant of its expiry
DeactivatedAfterExpiry ==
  [i \in KeyIds |->
     IF keys[i].exists /\ keys[i].isActive /\ keys[i].expiresAt # Null
        /\ keys[i].expiresAt < keyNow
       THEN [keys[i] EXCEPT !.isActive = FALSE]
       ELSE keys[i]]

\* the update of step 1 of listActive: active keys whose expiry has come
Deactivated ==
  [i \in KeyIds |->
     IF keys[i].exists /\ keys[i].isActive /\ keys[i].expiresAt # Null
        /\ keys[i].expiresAt <= keyNow
       THEN [keys[i] EXCEPT !.isActive = FALSE]
       ELSE keys[i]]

\* the query of step 2 of listActive on the rows ks
ActiveKeys(ks) ==
  [i \in KeyIds |->
     IF ks[i].exists /\ ks[i].isActive
        /\ (ks[i].expiresAt = Null \/ ks[i].expiresAt > keyNow)
       THEN ks[i]
       ELSE NoKey]

\* listActive()
listActive ==
  /\ IF KeyCacheLive(activeCache)
       THEN /\ keyLast' = [KeyCall("listActive", 0, "", "") EXCEPT
                             !.ok = TRUE, !.keys = activeCache.value]
            /\ UNCHANGED <<keys, activeCache>>
       ELSE /\ keys' = Deactivated
            /\ activeCache' = KeyCacheSet(ActiveKeys(Deactivated), CACHE_TTL)
            /\ keyLast' = [KeyCall("listActive", 0, "", "") EXCEPT
                             !.ok = TRUE, !.keys = ActiveKeys(Deactivated)]
  /\ UNCHANGED <<keyNow, allCache, keyLimit, keyLog, lookup>>
  /\ UnchangedMain

\* disableKey(id)
disableKey(id) ==
  /\ keys' = [keys EXCEPT ![id].isActive = IF keys[id].exists THEN FALSE ELSE @]
  /\ activeCache' = clearActiveCache
  /\ keyLast' = [KeyCall("disableKey", id, "", "") EXCEPT !.ok = TRUE]
  /\ UNCHANGED <<keyNow, allCache, keyLimit, keyLog, lookup>>
  /\ UnchangedMain

\* findValidKey(keys, providedKey) from position i on: the position of the
\* key it returns, 0 for null
RECURSIVE findValidKeyFrom(_, _, _)
findValidKeyFrom(ks, providedKey, i) ==
  IF i > Len(ks) THEN 0
  ELSE IF isExpired(ks[i]) THEN findValidKeyFrom(ks, providedKey, i + 1)
  ELSE IF safeCompare(ks[i].value, providedKey) THEN i
  ELSE findValidKeyFrom(ks, providedKey, i + 1)

findValidKey ==
  /\ keyLast' = [KeyCall("findValidKey", 0, "", lookup.providedKey) EXCEPT
                   !.ok = TRUE,
                   !.found = findValidKeyFrom(lookup.keys, lookup.providedKey, 1)]
  /\ UNCHANGED <<keyNow, keys, activeCache, allCache, keyLimit, keyLog, lookup>>
  /\ UnchangedMain

\* checkRateLimit(ip, key)
checkRateLimit(ip, key) ==
  LET rateKey == <<ip, key>>
      data == keyLimit[rateKey]
      expired == keyNow - data.firstAttempt > RATE_LIMIT_WINDOW
  IN  /\ IF ~KeyCacheLive(data)
           THEN /\ keyLast' = [KeyCall("checkRateLimit", 0, ip, key) EXCEPT !.ok = TRUE]
                /\ UNCHANGED keyLimit
           ELSE IF expired
             THEN /\ keyLimit' = [keyLimit EXCEPT ![rateKey] = NoRate]
                  /\ keyLast' = [KeyCall("checkRateLimit", 0, ip, key) EXCEPT !.ok = TRUE]
             ELSE /\ keyLast' = [KeyCall("checkRateLimit", 0, ip, key) EXCEPT
                                   !.ok = TRUE, !.limited = TRUE]
                  /\ UNCHANGED keyLimit
      /\ UNCHANGED <<keyNow, keys, activeCache, allCache, keyLog, lookup>>
      /\ UnchangedMain

\* incrementRateLimit(ip, key)
incrementRateLimit(ip, key) ==
  LET rateKey == <<ip, key>>
      data == keyLimit[rateKey]
      attempts == data.attempts + 1
      shouldBlock == attempts >= KEY_MAX_ATTEMPTS
  IN  /\ data.attempts < MaxCount
      /\ keyLimit' = [keyLimit EXCEPT ![rateKey] =
           IF ~KeyCacheLive(data)
             THEN [set |-> TRUE, attempts |-> 1, firstAttempt |-> keyNow,
                   blockedUntil |-> Null, expiresAt |-> keyNow + RATE_TTL]
             ELSE [set |-> TRUE, attempts |-> attempts, firstAttempt |-> data.firstAttempt,
                   blockedUntil |-> IF shouldBlock THEN keyNow + BLOCK_DURATION ELSE Null,
                   expiresAt |-> keyNow + (IF shouldBlock THEN BLOCK_TTL ELSE RATE_TTL)]]
      /\ keyLast' = [KeyCall("incrementRateLimit", 0, ip, key) EXCEPT !.ok = TRUE]
      /\ UNCHANGED <<keyNow, keys, activeCache, allCache, keyLog, lookup>>
      /\ UnchangedMain

\* handleSuccessfulAttempt(key): deletes the entry failed_attempts:<key>, an
\* entry no operation of the service writes; the entries rate_limit:<ip>:<key>
\* of keyLimit are other keys of the cache
handleSuccessfulAttempt(key) ==
  /\ keyLast' = [KeyCall("handleSuccessfulAttempt", 0, "", key) EXCEPT !.ok = TRUE]
  /\ UNCHANGED <<keyNow, keys, activeCache, allCache, keyLimit, keyLog, lookup>>
  /\ UnchangedMain

\* handleFailedAttempt blocking one attempt late
handleFailedAttemptLateBlock(key, ip) ==
  LET rateKey == <<ip, key>>
      data == keyLimit[rateKey]
      attempts == data.attempts + 1
      shouldBlock == attempts > KEY_MAX_ATTEMPTS
  IN  /\ data.attempts < MaxCount
      /\ keyLimit' = [keyLimit EXCEPT ![rateKey] =
           IF ~KeyCacheLive(data)
             THEN [set |-> TRUE, attempts |-> 1, firstAttempt |-> keyNow,
                   blockedUntil |-> Null, expiresAt |-> keyNow + RATE_TTL]
             ELSE [set |-> TRUE, attempts |-> attempts, firstAttempt |-> data.firstAttempt,
                   blockedUntil |-> IF shouldBlock THEN keyNow + BLOCK_DURATION ELSE Null,
                   expiresAt |-> keyNow + (IF shouldBlock THEN BLOCK_TTL ELSE RATE_TTL)]]
      /\ keyLast' = [KeyCall("handleFailedAttempt", 0, ip, key) EXCEPT !.ok = TRUE]
      /\ UNCHANGED <<keyNow, keys, activeCache, allCache, keyLog, lookup>>
      /\ UnchangedMain

\* handleFailedAttempt(key, ip): incrementRateLimit(ip, key)
handleFailedAttempt(key, ip) ==
  LET rateKey == <<ip, key>>
      data == keyLimit[rateKey]
      attempts == data.attempts + 1
      shouldBlock == attempts >= KEY_MAX_ATTEMPTS
  IN  /\ data.attempts < MaxCount
      /\ keyLimit' = [keyLimit EXCEPT ![rateKey] =
           IF ~KeyCacheLive(data)
             THEN [set |-> TRUE, attempts |-> 1, firstAttempt |-> keyNow,
                   blockedUntil |-> Null, expiresAt |-> keyNow + RATE_TTL]
             ELSE [set |-> TRUE, attempts |-> attempts, firstAttempt |-> data.firstAttempt,
                   blockedUntil |-> IF shouldBlock THEN keyNow + BLOCK_DURATION ELSE Null,
                   expiresAt |-> keyNow + (IF shouldBlock THEN BLOCK_TTL ELSE RATE_TTL)]]
      /\ keyLast' = [KeyCall("handleFailedAttempt", 0, ip, key) EXCEPT !.ok = TRUE]
      /\ UNCHANGED <<keyNow, keys, activeCache, allCache, keyLog, lookup>>
      /\ UnchangedMain

\* the payloads of loggerAttempt
LogPayloads ==
  [ip : KeyIps, keyId : {Null, 1}, event : {"app_key"}, success : BOOLEAN,
   reason : {"invalid"}]

\* JSON.stringify({...payload, timestamp: DateTime.now().toISO()}): one
\* string per payload and instant
LogMember(payload, t) == [payload |-> payload, timestamp |-> t]

LogMembers == {LogMember(p, t) : p \in {q \in LogPayloads : ~q.success}, t \in KeyTimes}

\* redis.zadd(key, score, member): the member is added, or its score is set
\* when the set holds the member already
zadd(log, score, member) == [log EXCEPT ![member] = score]

\* redis.zremrangebyscore(key, min, max)
zremrangebyscore(log, min, max) ==
  [m \in LogMembers |->
     IF log[m] # Null /\ min <= log[m] /\ log[m] <= max THEN Null ELSE log[m]]

\* loggerAttempt(payload)
loggerAttempt(payload) ==
  /\ IF payload.success
       THEN UNCHANGED keyLog
       ELSE keyLog' = zremrangebyscore(zadd(keyLog, keyNow, LogMember(payload, keyNow)),
                                       0, keyNow - LOGGER_TTL)
  /\ keyLast' = [KeyCall("loggerAttempt", payload.keyId, payload.ip, "") EXCEPT
                   !.ok = TRUE, !.success = payload.success]
  /\ UNCHANGED <<keyNow, keys, activeCache, allCache, keyLimit, lookup>>
  /\ UnchangedMain

\* the clock of the service: the cache drops the entries whose TTL has run out
KeyTick(t) ==
  /\ t > keyNow
  /\ keyNow' = t
  /\ activeCache' = Expire(activeCache, NoKeysEntry, t)
  /\ allCache' = Expire(allCache, NoKeysEntry, t)
  /\ keyLimit' = [k \in KeyIps \X Secrets |-> Expire(keyLimit[k], NoRate, t)]
  /\ UNCHANGED <<keys, keyLog, lookup, keyLast>>
  /\ UnchangedMain

\* the API-key service before its first call
KeyIdle ==
  /\ keyNow = 0
  /\ keys = NoKeys
  /\ activeCache = NoKeysEntry
  /\ allCache = NoKeysEntry
  /\ keyLimit = [k \in KeyIps \X Secrets |-> NoRate]
  /\ keyLog = [m \in LogMembers |-> Null]
  /\ lookup = [keys |-> <<>>, providedKey |-> "a"]
  /\ keyLast = NoKeyCall

(* ---------------------------------------------------------------------- *)
(* Token flows: request and confirm of both purposes, user maintenance    *)
(* ---------------------------------------------------------------------- *)
MainInit ==
  /\ now = 0
  /\ tokenHash = [k \in TokenKeys |-> NoEntry]
  /\ rateLimit = [k \in RLKeys |-> NoLimit]
  /\ accountBlock = [i \in Identifiers |-> NoEntry]
  /\ \E registered \in SUBSET Identifiers :
       users = [i \in Identifiers |-> IF i \in registered THEN UserRow(i) ELSE NoUser]
  /\ userCache = [i \in Identifiers |-> NoUserEntry]
  /\ listCache = NoListEntry
  /\ nextTok = 1
  /\ issued = [k \in TokenKeys |-> NoIssue]
  /\ failed = [i \in Identifiers |-> NoFailed]
  /\ streak = [k \in LoginKeys |-> NoStreak]
  /\ last = NoCall
  /\ blacklist = {}
  /\ accessTokens = [i \in Identifiers |-> 0]
  /\ inflight = [p \in Requests |-> Idle]
  /\ granted = [k \in TokenLimitKeys |-> NoStreak]

Init == MainInit /\ KeyIdle

\* every address is registered
MainReady == MainInit /\ users = [i \in Identifiers |-> UserRow(i)]

\* a caller presents a plaintext some request has sent out, or a wrong guess
Candidates == {t \in Tokens : t < nextTok} \cup {WrongGuess}

TokenNext ==
  \/ \E raw \in RawIds, ip \in TokenIps, sent \in BOOLEAN :
       requestEmailVerification(raw, ip, sent)
  \/ \E raw \in RawIds, ip \in TokenIps, t \in Candidates : verifyEmail(raw, t, ip)
  \/ \E raw \in RawIds, ip \in TokenIps, sent \in BOOLEAN :
       requestPasswordReset(raw, ip, sent)
  \/ \E raw \in RawIds, ip \in TokenIps, t \in Candidates, pw \in Passwords,
          sent \in BOOLEAN :
       resetPassword(raw, t, pw, ip, sent)
  \/ \E id \in Identifiers, active \in BOOLEAN : update(id, active)
  \/ \E id \in Identifiers : delete(id)
  \/ \E id \in Identifiers : anonymize(id)
  \/ \E t \in TokenTimes : Tick(t)

TokenSpec == Init /\ [][TokenNext]_vars

(* ---------------------------------------------------------------------- *)
(* History of the login limiter (not program state)                       *)
(* ---------------------------------------------------------------------- *)
\* one more attempt under the key: it continues the streak when it falls
\* inside the window the first attempt of the streak opened
StreakAfterAttempt(key, cfg) ==
  LET h == streak[key]
  IN  IF h.n > 0 /\ now - h.first < cfg.windowMs
        THEN [n |-> h.n + 1, first |-> h.first, at |-> now]
        ELSE [n |-> 1, first |-> now, at |-> now]

FailedAfter(id, key, blocks) ==
  LET f == failed[id]
      n == IF f.n < MAX_ATTEMPTS THEN f.n + 1 ELSE f.n
  IN  [n |-> n,
       at |-> IF f.n < MAX_ATTEMPTS /\ n = MAX_ATTEMPTS THEN now ELSE f.at,
       streakAt |-> IF StreakAfterAttempt(key, RATE_LIMIT_CONFIG).n >= MAX_ATTEMPTS
                      THEN now ELSE f.streakAt,
       blockedAt |-> IF blocks THEN now ELSE f.blockedAt]

(* ---------------------------------------------------------------------- *)
(* LoginProtectionService                                                 *)
(* ---------------------------------------------------------------------- *)
getAccountBlockKey(identifier) == identifier

\* isAccountBlocked(identifier)
isAccountBlocked(identifier) ==
  LET blockedUntil == CacheGet(accountBlock[getAccountBlockKey(identifier)])
  IN  blockedUntil # Null /\ now < blockedUntil

\* getFailedAttempts(identifier, ip) on the limiter state st of the key
getFailedAttempts(st) == IF RLLive(st) THEN st.attempts ELSE 0

\* blockAccount that applies the duration of the short block
blockAccountShort(identifier) ==
  [accountBlock EXCEPT ![getAccountBlockKey(identifier)] =
     CacheSet(now + BLOCK_TIME_MS, BLOCK_TIME_MS)]

\* blockAccount(identifier)
blockAccount(identifier) ==
  [accountBlock EXCEPT ![getAccountBlockKey(identifier)] =
     CacheSet(now + EXTENDED_BLOCK_TIME_MS, EXTENDED_BLOCK_TIME_MS)]

\* a check that reports the account block only to an ip the limiter knows
CheckResultKnownIp(identifier, ip) ==
  LET rateLimitCheck == RateLimiterCheck(<<"login", identifier, ip>>, RATE_LIMIT_CONFIG)
  IN  IF isAccountBlocked(identifier) /\ RLLive(rateLimit[<<"login", identifier, ip>>])
        THEN [allowed |-> FALSE, attemptsRemaining |-> 0,
              blockedUntil |-> CacheGet(accountBlock[getAccountBlockKey(identifier)]),
              isBlocked |-> TRUE]
        ELSE [allowed |-> rateLimitCheck.allowed,
              attemptsRemaining |-> rateLimitCheck.attemptsRemaining,
              blockedUntil |-> rateLimitCheck.blockedUntil,
              isBlocked |-> FALSE]

\* the value checkLoginAttempt returns
CheckResult(identifier, ip) ==
  LET rateLimitCheck == RateLimiterCheck(<<"login", identifier, ip>>, RATE_LIMIT_CONFIG)
  IN  IF isAccountBlocked(identifier)
        THEN [allowed |-> FALSE, attemptsRemaining |-> 0,
              blockedUntil |-> CacheGet(accountBlock[getAccountBlockKey(identifier)]),
              isBlocked |-> TRUE]
        ELSE [allowed |-> rateLimitCheck.allowed,
              attemptsRemaining |-> rateLimitCheck.attemptsRemaining,
              blockedUntil |-> rateLimitCheck.blockedUntil,
              isBlocked |-> FALSE]

\* checkLoginAttempt({identifier, ip}): RateLimiter.check is called first
checkLoginAttempt(identifier, ip) ==
  LET r == CheckResult(identifier, ip)
  IN  /\ last' = [Call("checkLoginAttempt", "login", identifier, ip, WrongGuess) EXCEPT
                    !.ok = TRUE, !.rlChecked = TRUE, !.allowed = r.allowed,
                    !.isBlocked = r.isBlocked, !.attemptsRemaining = r.attemptsRemaining,
                    !.blockedUntil = r.blockedUntil]
      /\ UNCHANGED <<now, rateLimit, accountBlock, failed, streak>>
      /\ UnchangedToken

\* clearLoginAttempts that lifts the account block as well
clearLoginAttemptsAndBlock(identifier, ip) ==
  /\ rateLimit' = [rateLimit EXCEPT ![<<"login", identifier, ip>>] = RateLimiterClearAttempts]
  /\ streak' = [streak EXCEPT ![<<"login", identifier, ip>>] = NoStreak]
  /\ accountBlock' = [accountBlock EXCEPT ![getAccountBlockKey(identifier)] = CacheDelete]

\* clearLoginAttempts that never reaches the limiter
clearLoginAttemptsSkipped(identifier, ip) ==
  UNCHANGED <<rateLimit, streak, accountBlock>>

\* clearLoginAttempts(identifier, ip)
clearLoginAttempts(identifier, ip) ==
  /\ rateLimit' = [rateLimit EXCEPT ![<<"login", identifier, ip>>] = RateLimiterClearAttempts]
  /\ streak' = [streak EXCEPT ![<<"login", identifier, ip>>] = NoStreak]
  /\ UNCHANGED accountBlock

\* a caller invokes clearLoginAttempts(identifier, ip) itself
callClearLoginAttempts(identifier, ip) ==
  /\ clearLoginAttempts(identifier, ip)
  /\ last' = [Call("clearLoginAttempts", "login", identifier, ip, WrongGuess) EXCEPT !.ok = TRUE]
  /\ UNCHANGED <<now, failed>>
  /\ UnchangedToken

\* recordLoginAttempt that blocks the account one failure later
recordLoginAttemptLateBlock(identifier, ip, success, contact, sent) ==
  LET key == <<"login", identifier, ip>>
      st == RateLimiterRecordAttempt(key, RATE_LIMIT_CONFIG)
      attempts == getFailedAttempts(st)
      blocks == attempts > MAX_ATTEMPTS
      call == Call("recordLoginAttempt", "login", identifier, ip, WrongGuess)
  IN  /\ IF success
           THEN /\ clearLoginAttempts(identifier, ip)
                /\ last' = [call EXCEPT !.ok = TRUE, !.success = TRUE,
                              !.cleared = getFailedAttempts(rateLimit[key])]
                /\ UNCHANGED failed
           ELSE /\ CanRecord(key)
                /\ rateLimit' = [rateLimit EXCEPT ![key] = st]
                /\ streak' = [streak EXCEPT ![key] = StreakAfterAttempt(key, RATE_LIMIT_CONFIG)]
                /\ failed' = [failed EXCEPT ![identifier] = FailedAfter(identifier, key, blocks)]
                /\ accountBlock' = IF blocks THEN blockAccount(identifier) ELSE accountBlock
                /\ last' = LET done == [call EXCEPT !.ok = TRUE, !.isBlocked = blocks,
                                                      !.attemptsRemaining = attempts]
                           IN  IF blocks /\ contact
                                 THEN EmailServiceSend(done, "account-blocked", sent)
                                 ELSE done
      /\ UNCHANGED now
      /\ UnchangedToken

\* recordLoginAttempt({identifier, ip, success, userName, userEmail});
\* contact: userEmail && userName, sent: EmailService.send delivers
recordLoginAttempt(identifier, ip, success, contact, sent) ==
  LET key == <<"login", identifier, ip>>
      st == RateLimiterRecordAttempt(key, RATE_LIMIT_CONFIG)
      attempts == getFailedAttempts(st)
      blocks == attempts >= MAX_ATTEMPTS
      call == Call("recordLoginAttempt", "login", identifier, ip, WrongGuess)
  IN  /\ IF success
           THEN /\ clearLoginAttempts(identifier, ip)
                /\ last' = [call EXCEPT !.ok = TRUE, !.success = TRUE,
                              !.cleared = getFailedAttempts(rateLimit[key])]
                /\ UNCHANGED failed
           ELSE /\ CanRecord(key)
                /\ rateLimit' = [rateLimit EXCEPT ![key] = st]
                /\ streak' = [streak EXCEPT ![key] = StreakAfterAttempt(key, RATE_LIMIT_CONFIG)]
                /\ failed' = [failed EXCEPT ![identifier] = FailedAfter(identifier, key, blocks)]
                /\ accountBlock' = IF blocks THEN blockAccount(identifier) ELSE accountBlock
                /\ last' = LET done == [call EXCEPT !.ok = TRUE, !.isBlocked = blocks,
                                                      !.attemptsRemaining = attempts]
                           IN  IF blocks /\ contact
                                 THEN EmailServiceSend(done, "account-blocked", sent)
                                 ELSE done
      /\ UNCHANGED now
      /\ UnchangedToken

LoginNext ==
  \/ \E id \in Identifiers, ip \in Ips : checkLoginAttempt(id, ip)
  \/ \E id \in Identifiers, ip \in Ips, success \in BOOLEAN, contact \in BOOLEAN :
       recordLoginAttempt(id, ip, success, contact, TRUE)
  \/ \E id \in Identifiers, ip \in Ips : callClearLoginAttempts(id, ip)
  \/ \E t \in LoginTimes : Tick(t)

LoginInit == Init /\ users = [i \in Identifiers |-> UserRow(i)]

LoginSpec == LoginInit /\ [][LoginNext]_vars

(* ---------------------------------------------------------------------- *)
(* The RateLimiter called directly, with the configuration of the login   *)
(* ---------------------------------------------------------------------- *)
callCheck(key) ==
  LET r == RateLimiterCheck(key, RATE_LIMIT_CONFIG)
  IN  /\ last' = [Call("check", key[1], key[2], key[3], WrongGuess) EXCEPT
                    !.ok = TRUE, !.rlChecked = TRUE, !.allowed = r.allowed,
                    !.attemptsRemaining = r.attemptsRemaining,
                    !.blockedUntil = r.blockedUntil]
      /\ UNCHANGED <<now, rateLimit, accountBlock, failed, streak>>
      /\ UnchangedToken

callRecordAttempt(key) ==
  /\ CanRecord(key)
  /\ rateLimit' = [rateLimit EXCEPT ![key] = RateLimiterRecordAttempt(key, RATE_LIMIT_CONFIG)]
  /\ streak' = [streak EXCEPT ![key] = StreakAfterAttempt(key, RATE_LIMIT_CONFIG)]
  /\ last' = [Call("recordAttempt", key[1], key[2], key[3], WrongGuess) EXCEPT !.ok = TRUE]
  /\ UNCHANGED <<now, accountBlock, failed>>
  /\ UnchangedToken

callClearAttempts(key) ==
  /\ rateLimit' = [rateLimit EXCEPT ![key] = RateLimiterClearAttempts]
  /\ streak' = [streak EXCEPT ![key] = NoStreak]
  /\ last' = [Call("clearAttempts", key[1], key[2], key[3], WrongGuess) EXCEPT !.ok = TRUE]
  /\ UNCHANGED <<now, accountBlock, failed>>
  /\ UnchangedToken

LimiterNext ==
  \/ \E key \in LoginKeys : callCheck(key)
  \/ \E key \in LoginKeys : callRecordAttempt(key)
  \/ \E key \in LoginKeys : callClearAttempts(key)
  \/ \E t \in LoginTimes : Tick(t)

LimiterSpec == LoginInit /\ [][LimiterNext]_vars

(* ---------------------------------------------------------------------- *)
(* The operations that dispatch a notification, called one after another  *)
(* at one instant                                                         *)
(* ---------------------------------------------------------------------- *)
NotifyNext ==
  \/ \E raw \in RawIds, ip \in TokenIps, sent \in BOOLEAN :
       requestEmailVerification(raw, ip, sent)
  \/ \E raw \in RawIds, ip \in TokenIps, sent \in BOOLEAN :
       requestPasswordReset(raw, ip, sent)
  \/ \E raw \in RawIds, ip \in TokenIps, t \in Candidates, pw \in Passwords,
          sent \in BOOLEAN :
       resetPassword(raw, t, pw, ip, sent)
  \/ \E id \in Identifiers, ip \in TokenIps, contact \in BOOLEAN, sent \in BOOLEAN :
       recordLoginAttempt(id, ip, FALSE, contact, sent)

NotifySpec == LoginInit /\ [][NotifyNext]_vars

(* ---------------------------------------------------------------------- *)
(* Properties of the notifications (checked under NotifySpec)             *)
(* ---------------------------------------------------------------------- *)
\* the dispatch of the notification of the last call failed
SendFailed == last.mail # "none" /\ last.cause = "mail"

\* C18: a failure of the notification dispatch does not abort the primary
\* flow.  When EmailService.send fails, requestEmailVerification and
\* requestPasswordReset still return true after storing the token,
\* resetPassword still returns true after changing the password, and
\* recordLoginAttempt still completes normally after setting the block.
C18_SendFailureDoesNotAbort ==
  (SendFailed /\ last.mail \in {"verification", "reset", "success", "account-blocked"})
    => last.ok

\* C19: a failure to send a notification never rolls back state already
\* committed.  After the failed send of a token request the digest of the
\* generated token is stored with the TTL of the purpose and the attempt is
\* recorded in the limiter; after the failed send of resetPassword the
\* password is the new one and the token is consumed; after the failed send of
\* recordLoginAttempt the account block set by the call is in place.
C19_SendFailureKeepsState ==
  [][(now' = now /\ last'.mail # "none" /\ last'.cause = "mail") =>
       LET id == last'.id
           rlKey == <<last'.purpose, id, last'.ip>>
       IN  /\ last'.mail \in {"verification", "reset"} =>
                /\ tokenHash'[PurposeKey(last'.purpose, id)]
                     = CacheSet(Sha256(last'.tok), PurposeTTL(last'.purpose))
                /\ rateLimit'[rlKey] = RateLimiterRecordAttempt(rlKey, getDefaultConfig)
                /\ rateLimit'[rlKey].attempts >= 1
           /\ last'.mail = "success" =>
                /\ users'[id].password \in Passwords
                /\ users'[id].password # users[id].password
                     \/ users[id].password \in Passwords
                /\ ~tokenHash'[getResetKey(id)].set
                /\ issued'[getResetKey(id)].used
           /\ last'.mail = "account-blocked" =>
                /\ accountBlock'[getAccountBlockKey(id)]
                     = CacheSet(now + EXTENDED_BLOCK_TIME_MS, EXTENDED_BLOCK_TIME_MS)
                /\ rateLimit'[rlKey] = RateLimiterRecordAttempt(rlKey, RATE_LIMIT_CONFIG)]_vars

\* the closing notification of a password reset has just failed: the new
\* password is saved and the token consumed
C19_Witness ==
  /\ last.op = "resetPassword"
  /\ SendFailed
  /\ users[last.id].password \in Passwords
  /\ ~tokenHash[getResetKey(last.id)].set
  /\ issued[getResetKey(last.id)].used

(* ---------------------------------------------------------------------- *)
(* Properties of the rate limiter (checked under LimiterSpec)             *)
(* ---------------------------------------------------------------------- *)
\* C6: for every key, after maxAttempts consecutive recordAttempt calls
\* inside one window (no clearAttempts between them), check returns
\* allowed=false, with blockedUntil the blocking attempt plus blockDuration,
\* until blockDuration has elapsed since the blocking attempt; from then on
\* it returns allowed=true with a fresh counter (no attempt counted).
C6_BlockThenFresh ==
  \A key \in LoginKeys :
    LET h == streak[key]
        c == RateLimiterCheck(key, RATE_LIMIT_CONFIG)
    IN  h.n >= MAX_ATTEMPTS
          => IF now < h.at + BLOCK_TIME_MS
               THEN ~c.allowed /\ c.blockedUntil = h.at + BLOCK_TIME_MS
               ELSE /\ c.allowed
                    /\ c.attemptsRemaining = MAX_ATTEMPTS
                    /\ getFailedAttempts(rateLimit[key]) = 0

\* a check has just answered allowed=true with all attempts remaining, after
\* the block of a blocking streak ran out
C6_Witness ==
  /\ last.op = "check"
  /\ last.allowed
  /\ last.attemptsRemaining = MAX_ATTEMPTS
  /\ streak[<<"login", last.id, last.ip>>].n >= MAX_ATTEMPTS
  /\ now >= streak[<<"login", last.id, last.ip>>].at + BLOCK_TIME_MS

(* ---------------------------------------------------------------------- *)
(* Properties of the login protection (checked under LoginSpec)           *)
(* ---------------------------------------------------------------------- *)
Blocked(identifier, ip) ==
  CheckResult(identifier, ip).isBlocked /\ ~CheckResult(identifier, ip).allowed

\* C7 as stated: after maxAttempts failed logins recorded for an identifier,
\* every checkLoginAttempt for it returns isBlocked=true and allowed=false
\* during the two hours that follow the last of these failures.
C7_BlockedAfterFailures ==
  \A id \in Identifiers, ip \in Ips :
    (failed[id].n >= MAX_ATTEMPTS /\ failed[id].at # Null
       /\ now < failed[id].at + EXTENDED_BLOCK_TIME_MS)
      => Blocked(id, ip)

\* C7 amended: after maxAttempts failed logins recorded for an identifier
\* from one ip inside one window, with no successful login or
\* clearLoginAttempts between them, every checkLoginAttempt for the
\* identifier, from any ip, returns isBlocked=true and allowed=false during
\* the two hours that follow the last of these failures, also after the
\* 30 minutes of the rate-limiter block.
C7_BlockedAfterStreak ==
  \A id \in Identifiers, ip \in Ips :
    (failed[id].streakAt # Null /\ now < failed[id].streakAt + EXTENDED_BLOCK_TIME_MS)
      => Blocked(id, ip)

\* a check has just reported the account block after the short block ran out
C7_Witness ==
  /\ last.op = "checkLoginAttempt"
  /\ last.isBlocked
  /\ ~last.allowed
  /\ failed[last.id].streakAt # Null
  /\ now >= failed[last.id].streakAt + BLOCK_TIME_MS
  /\ \A ip \in Ips : ~RLBlocked(rateLimit[<<"login", last.id, ip>>])

\* C8: the account block is keyed on the identifier alone.  While the block
\* set by a blocking failure is in force, checkLoginAttempt answers every ip
\* with allowed=false, isBlocked=true and blockedUntil = the instant of the
\* blocking failure plus two hours.
C8_BlockForEveryIp ==
  \A id \in Identifiers, ip \in Ips :
    failed[id].blockedAt # Null
      => CheckResult(id, ip) =
           [allowed |-> FALSE, attemptsRemaining |-> 0,
            blockedUntil |-> failed[id].blockedAt + EXTENDED_BLOCK_TIME_MS,
            isBlocked |-> TRUE]

\* a check from an ip without any recorded attempt has just been answered
\* with the account block
C8_Witness ==
  /\ last.op = "checkLoginAttempt"
  /\ last.isBlocked
  /\ last.blockedUntil = failed[last.id].blockedAt + EXTENDED_BLOCK_TIME_MS
  /\ ~rateLimit[<<"login", last.id, last.ip>>].set
  /\ streak[<<"login", last.id, last.ip>>].n = 0

\* C9: an account block is cleared by expiry only.  No call removes or
\* shortens a block in force (a successful recordLoginAttempt and
\* clearLoginAttempts leave it as it is), the passing of time leaves it in
\* place until blockedUntil, and once blockedUntil has passed
\* checkLoginAttempt no longer reports isBlocked.
C9_BlockEndsByExpiryOnly ==
  [][\A id \in Identifiers :
       LET b == accountBlock[getAccountBlockKey(id)]
           b2 == accountBlock'[getAccountBlockKey(id)]
       IN  /\ (b.set /\ now' < b.value)
                => (b2.set /\ b2.value >= b.value /\ b2.expiresAt >= b.value)
           /\ (b.set /\ now' < b.value /\ last'.op # "recordLoginAttempt")
                => b2 = b
           /\ (~b2.set \/ now' >= b2.value)
                => \A ip \in Ips : ~(CheckResult(id, ip).isBlocked)']_vars

\* a successful login has just been recorded while the account block is in force
C9_Witness ==
  /\ last.op = "recordLoginAttempt"
  /\ last.success
  /\ isAccountBlocked(last.id)
  /\ ~rateLimit[<<"login", last.id, last.ip>>].set

\* C10: when the account block is active, checkLoginAttempt returns blocked
\* without calling the rate limiter for login:identifier.
C10_BlockShortCircuitsLimiter ==
  (last.op = "checkLoginAttempt" /\ last.isBlocked) => ~last.rlChecked

\* the limiter's answer for a key that holds no attempt and no block
FreshCheck(identifier, ip) ==
  LET c == RateLimiterCheck(<<"login", identifier, ip>>, RATE_LIMIT_CONFIG)
  IN  /\ c.allowed
      /\ c.attemptsRemaining = MAX_ATTEMPTS
      /\ c.blockedUntil = Null
      /\ getFailedAttempts(rateLimit[<<"login", identifier, ip>>]) = 0

SuccessStep(identifier, ip) ==
  /\ now' = now
  /\ last'.op = "recordLoginAttempt"
  /\ last'.success
  /\ last'.id = identifier
  /\ last'.ip = ip

\* C11 as stated: a successful recordLoginAttempt clears all rate-limiter
\* state of login:identifier, so that the next check for the identifier,
\* from whichever ip, starts from 0 attempts and no short block.
C11_SuccessClearsIdentifier ==
  [][\A id \in Identifiers, ip \in Ips :
       SuccessStep(id, ip) => \A other \in Ips : FreshCheck(id, other)']_vars

\* C11 amended: a successful recordLoginAttempt({identifier, ip}) clears the
\* rate-limiter state of login:identifier for that ip, so that the next
\* check for the identifier from that ip starts from 0 attempts and no short
\* block; the state recorded for the identifier from another ip stays.
C11_SuccessClearsIdentifierIp ==
  [][\A id \in Identifiers, ip \in Ips :
       SuccessStep(id, ip) =>
         /\ FreshCheck(id, ip)'
         /\ \A other \in Ips \ {ip} :
              rateLimit'[<<"login", id, other>>] = rateLimit[<<"login", id, other>>]]_vars

\* a successful login has just cleared a short block of its ip while the
\* other ip still holds attempts
C11_Witness ==
  /\ last.op = "recordLoginAttempt"
  /\ last.success
  /\ last.cleared >= MAX_ATTEMPTS
  /\ FreshCheck(last.id, last.ip)
  /\ \E ip \in Ips \ {last.ip} : getFailedAttempts(rateLimit[<<"login", last.id, ip>>]) > 0

(* ---------------------------------------------------------------------- *)
(* Properties of the token flows (checked under TokenSpec)                *)
(* ---------------------------------------------------------------------- *)
\* T is the token the newest request for (purpose, email) generated, and its
\* TTL has not run out
Pending(purpose, email, t) ==
  LET h == issued[PurposeKey(purpose, email)]
  IN  /\ t # WrongGuess
      /\ h.tok = t
      /\ now < h.at + PurposeTTL(purpose)

\* the account lookup of the confirm passes
AccountPasses(purpose, email) ==
  /\ UserByEmail(email).exists
  /\ purpose = "reset" => (UserByEmail(email).isActive /\ ~UserByEmail(email).isDeleted)

\* every step that leaves the clock alone is one call, which last' describes
ConfirmStep(purpose) ==
  /\ now' = now
  /\ last'.op = (IF purpose = "verify" THEN "verifyEmail" ELSE "resetPassword")
  /\ last'.purpose = purpose

RequestStep(purpose) ==
  /\ now' = now
  /\ last'.op = (IF purpose = "verify" THEN "requestEmailVerification"
                                       ELSE "requestPasswordReset")
  /\ last'.purpose = purpose

ConfirmOp(purpose) == IF purpose = "verify" THEN "verifyEmail" ELSE "resetPassword"

C2_SingleUse ==
  [][\A purpose \in Purposes :
       /\ (ConfirmStep(purpose) /\ last'.ok)
            => ~tokenHash'[PurposeKey(purpose, last'.id)].set
       /\ (/\ last.op = ConfirmOp(purpose) /\ last.ok
           /\ ConfirmStep(purpose)
           /\ last'.id = last.id /\ last'.tok = last.tok)
            => (~last'.ok /\ last'.err = InvalidOrExpiredToken)]_vars

\* the second of two confirms with the same token has just failed: the token
\* presented is the used newest token of its key
C2_Witness ==
  /\ last.op = "verifyEmail"
  /\ ~last.ok
  /\ last.err = InvalidOrExpiredToken
  /\ last.tok # WrongGuess
  /\ issued[getVerifyKey(last.id)].tok = last.tok
  /\ issued[getVerifyKey(last.id)].used
  /\ users[last.id].emailVerifiedAt # Null

C4_OneValidationError ==
  (last.op \in {"verifyEmail", "resetPassword"} /\ last.cause \in {"absent", "mismatch"})
    => (~last.ok /\ last.err = InvalidOrExpiredToken)

\* a confirm has just failed against a stored digest of another token
C4_Witness ==
  /\ last.op \in {"verifyEmail", "resetPassword"}
  /\ last.cause = "mismatch"
  /\ tokenHash[PurposeKey(last.purpose, last.id)].set
  /\ tokenHash[PurposeKey(last.purpose, last.id)].value # Sha256(last.tok)

\* the rate limiter refuses the next token request of the flow
Denied(purpose, email, ip) ==
  ~RateLimiterCheck(<<purpose, email, ip>>, getDefaultConfig).allowed

\* the request reaches the rate limiter (the password reset looks the user up first)
ReachesLimiter(purpose, email) ==
  purpose = "reset" =>
    (UserByEmail(email).exists /\ UserByEmail(email).isActive /\ ~UserByEmail(email).isDeleted)

ValidResetStep(id) ==
  /\ ConfirmStep("reset")
  /\ last'.id = id
  /\ validateToken(last'.tok, getResetKey(id)).ok

\* C20 as stated: resetPassword never changes the password of an account
\* that is inactive or deleted; with a valid token for such an account it
\* fails with the inactive-account error and leaves the row of the user and
\* the user cache unchanged.
C20_InactiveOrDeletedRefused ==
  [][\A id \in Identifiers :
       (ValidResetStep(id) /\ users[id].exists /\ (~users[id].isActive \/ users[id].isDeleted))
         => /\ ~last'.ok
            /\ last'.err = InactiveError
            /\ users' = users
            /\ userCache' = userCache]_vars

\* C20 amended: with a valid token for an account that is inactive or deleted
\* resetPassword fails and leaves the row of the user, the user cache and the
\* stored digest unchanged.  It fails with the inactive-account error when the
\* row still holds the e-mail address (a deactivated account), and with the
\* not-found error of the lookup when the account was anonymized, whose
\* address is scrubbed, or when the row was removed.
C20_InactiveOrDeletedUnchanged ==
  [][\A id \in Identifiers :
       (ValidResetStep(id) /\ (~users[id].exists \/ ~users[id].isActive \/ users[id].isDeleted))
         => /\ ~last'.ok
            /\ last'.err = (IF UserByEmail(id).exists THEN InactiveError ELSE NotFoundError)
            /\ UserByEmail(id).exists <=> (users[id].exists /\ ~users[id].isDeleted)
            /\ users' = users
            /\ userCache' = userCache
            /\ tokenHash' = tokenHash]_vars

\* a reset with the valid token of a deactivated account has just been refused
C20_Witness ==
  /\ last.op = "resetPassword"
  /\ last.err = InactiveError
  /\ users[last.id].exists
  /\ ~users[last.id].isActive
  /\ users[last.id].password = ""
  /\ validateToken(last.tok, getResetKey(last.id)).ok

(* ---------------------------------------------------------------------- *)
(* UserService, AuthService: the users table behind its two caches        *)
(* ---------------------------------------------------------------------- *)
\* findById(id): the cached snapshot when there is one, else the row, which
\* is then cached for an hour
findById(id) ==
  LET call == Call("findById", "none", id, "", WrongGuess)
  IN  /\ IF CacheLive(userCache[id])
           THEN /\ last' = [call EXCEPT !.ok = TRUE, !.user = userCache[id].value]
                /\ UNCHANGED userCache
           ELSE IF users[id].exists
             THEN /\ userCache' = [userCache EXCEPT ![id] =
                                     CacheSet(Serialize(users[id]), USER_CACHE_TTL)]
                  /\ last' = [call EXCEPT !.ok = TRUE, !.user = Serialize(users[id])]
             ELSE /\ last' = Thrown(call, "user", NotFoundError)
                  /\ UNCHANGED userCache
      /\ UNCHANGED <<now, tokenHash, rateLimit, users, listCache, nextTok, issued>>
      /\ UnchangedLogin

\* list(): the cached list when there is one, else the users that are not
\* deleted, which are then cached for ten minutes
list ==
  /\ listCache' = IF CacheLive(listCache)
                    THEN listCache
                    ELSE CacheSet(CurrentList, LIST_CACHE_TTL)
  /\ last' = [Call("list", "none", "", "", WrongGuess) EXCEPT !.ok = TRUE]
  /\ UNCHANGED <<now, tokenHash, rateLimit, users, userCache, nextTok, issued>>
  /\ UnchangedLogin

\* create(payload): the address is unique in the table
create(id, password) ==
  /\ ~users[id].exists
  /\ users' = [users EXCEPT ![id] = [UserRow(id) EXCEPT !.password = password]]
  /\ listCache' = invalidateList
  /\ last' = [Call("create", "none", id, "", WrongGuess) EXCEPT !.ok = TRUE]
  /\ UNCHANGED <<now, tokenHash, rateLimit, userCache, nextTok, issued>>
  /\ UnchangedLogin

\* checkStartSetup(): no super administrator that is not deleted
checkStartSetup ==
  ~\E i \in DOMAIN users :
     users[i].exists /\ ~users[i].isDeleted /\ users[i].role = "super"

SuperAdminExists == [message |-> "Ja existe um super administrador cadastrado.", status |-> 500]

\* createSuperAdmin(payload): the row is created, no cache entry is touched
createSuperAdmin(id, password) ==
  /\ checkStartSetup => ~users[id].exists
  /\ IF checkStartSetup
       THEN /\ users' = [users EXCEPT ![id] =
                           [UserRow(id) EXCEPT !.password = password, !.role = "super"]]
            /\ last' = [Call("createSuperAdmin", "none", id, "", WrongGuess) EXCEPT !.ok = TRUE]
       ELSE /\ last' = Thrown(Call("createSuperAdmin", "none", id, "", WrongGuess),
                              "setup", SuperAdminExists)
            /\ UNCHANGED users
  /\ UNCHANGED <<now, tokenHash, rateLimit, userCache, listCache, nextTok, issued>>
  /\ UnchangedLogin

InvalidCurrentPassword == [message |-> "Senha atual invalida", status |-> 400]

\* updatePassword(user, password, currentPassword); hash.verify accepts the
\* plaintext the stored password was made from
updatePassword(id, password, currentPassword) ==
  /\ users[id].exists
  /\ IF users[id].password = currentPassword
       THEN /\ users' = [users EXCEPT ![id].password = password]
            /\ userCache' = invalidateUser(userCache, id)
            /\ listCache' = invalidateList
            /\ last' = [Call("updatePassword", "none", id, "", WrongGuess) EXCEPT !.ok = TRUE]
       ELSE /\ last' = Thrown(Call("updatePassword", "none", id, "", WrongGuess),
                              "password", InvalidCurrentPassword)
            /\ UNCHANGED <<users, userCache, listCache>>
  /\ UNCHANGED <<now, tokenHash, rateLimit, nextTok, issued>>
  /\ UnchangedLogin

\* TokenService.revokeAllTokens(user): the access tokens are deleted and the
\* cache of the user is invalidated
\* revoked: the deletes of User.accessTokens succeed; invalidated: the
\* delete of the cache entries succeeds
RevokeFailed == [message |-> "Falha ao revogar tokens", status |-> 500]

\* revokeAllTokens that reports success whatever the two steps did
revokeAllTokensSwallowing(id, revoked, invalidated) ==
  /\ users[id].exists
  /\ accessTokens' = IF revoked THEN revokeAllAccessTokens(id) ELSE accessTokens
  /\ userCache' = IF revoked /\ invalidated THEN invalidateUser(userCache, id) ELSE userCache
  /\ listCache' = IF revoked /\ invalidated THEN invalidateList ELSE listCache
  /\ last' = [Call("revokeAllTokens", "none", id, "", WrongGuess) EXCEPT !.ok = TRUE]
  /\ UNCHANGED <<now, tokenHash, rateLimit, users, nextTok, issued>>
  /\ UNCHANGED <<accountBlock, failed, streak, blacklist, inflight, granted>>
  /\ UnchangedKeys

revokeAllTokens(id, revoked, invalidated) ==
  /\ users[id].exists
  /\ accessTokens' = IF revoked THEN revokeAllAccessTokens(id) ELSE accessTokens
  /\ userCache' = IF revoked /\ invalidated THEN invalidateUser(userCache, id) ELSE userCache
  /\ listCache' = IF revoked /\ invalidated THEN invalidateList ELSE listCache
  /\ last' = IF revoked /\ invalidated
               THEN [Call("revokeAllTokens", "none", id, "", WrongGuess) EXCEPT !.ok = TRUE]
               ELSE Thrown(Call("revokeAllTokens", "none", id, "", WrongGuess),
                           IF revoked THEN "cache" ELSE "revoke", RevokeFailed)
  /\ UNCHANGED <<now, tokenHash, rateLimit, users, nextTok, issued>>
  /\ UNCHANGED <<accountBlock, failed, streak, blacklist, inflight, granted>>
  /\ UnchangedKeys

BlockedLoginError == [message |-> "Conta temporariamente bloqueada", status |-> 403]
TooManyLoginsError == [message |-> "Muitas tentativas de login", status |-> 429]
InvalidCredentials == [message |-> "Credenciais invalidas", status |-> 401]

\* isActive(user)
isActive(user) == user.isActive /\ ~user.isDeleted

\* User.verifyCredentials(email, password) of the mixin withAuthFinder: it
\* returns the user when the password verifies and throws
\* E_INVALID_CREDENTIALS otherwise; it never returns null
E_INVALID_CREDENTIALS == [message |-> "Invalid user credentials", status |-> 400]

verifyCredentials(user, password) ==
  IF user.exists /\ user.password = password
    THEN [ok |-> TRUE, err |-> NoError]
    ELSE [ok |-> FALSE, err |-> E_INVALID_CREDENTIALS]

\* login that creates the access token before it looks at the answer of
\* checkLoginAttempt
loginTokenBeforeGate(raw, password, ip) ==
  LET identifier == Normalize(raw)
      key == <<"login", identifier, ip>>
      loginCheck == CheckResult(identifier, ip)
      user == IF raw[2] = "plain" THEN UserByEmail(raw[1]) ELSE NoUser
      known == user.exists /\ isActive(user)
      authUser == verifyCredentials(user, password)
      st == RateLimiterRecordAttempt(key, RATE_LIMIT_CONFIG)
      blocks == getFailedAttempts(st) >= MAX_ATTEMPTS
      call == Call("login", "login", identifier, ip, WrongGuess)
      row == [user EXCEPT !.lastLoginAt = now]
  IN  /\ IF ~loginCheck.allowed
           THEN /\ last' = Thrown([call EXCEPT !.rlChecked = TRUE,
                                               !.isBlocked = loginCheck.isBlocked],
                                  "limit",
                                  IF loginCheck.isBlocked THEN BlockedLoginError
                                                          ELSE TooManyLoginsError)
                /\ UNCHANGED <<rateLimit, streak, failed, accountBlock, users, userCache>>
           ELSE IF ~known
             THEN /\ CanRecord(key)
                  /\ rateLimit' = [rateLimit EXCEPT ![key] = st]
                  /\ streak' = [streak EXCEPT ![key] =
                                  StreakAfterAttempt(key, RATE_LIMIT_CONFIG)]
                  /\ failed' = [failed EXCEPT ![identifier] =
                                  FailedAfter(identifier, key, blocks)]
                  /\ accountBlock' = IF blocks THEN blockAccount(identifier)
                                               ELSE accountBlock
                  /\ last' = Thrown([call EXCEPT !.rlChecked = TRUE, !.allowed = TRUE],
                                    IF user.exists THEN "inactive" ELSE "notfound",
                                    InvalidCredentials)
                  /\ UNCHANGED <<users, userCache>>
             ELSE IF ~authUser.ok
               THEN /\ last' = Thrown([call EXCEPT !.rlChecked = TRUE, !.allowed = TRUE],
                                      "password", authUser.err)
                    /\ UNCHANGED <<rateLimit, streak, failed, accountBlock, users, userCache>>
               ELSE /\ clearLoginAttempts(identifier, ip)
                    /\ users' = [users EXCEPT ![identifier] = row]
                    /\ userCache' = [userCache EXCEPT ![identifier] =
                                       CacheSet(Serialize(row), USER_CACHE_TTL)]
                    /\ last' = [call EXCEPT !.ok = TRUE, !.success = TRUE,
                                            !.rlChecked = TRUE, !.allowed = TRUE,
                                            !.user = Serialize(row)]
                    /\ UNCHANGED failed
      /\ UNCHANGED <<now, tokenHash, listCache, nextTok, issued, blacklist, inflight, granted>>
      /\ accessTokens' = IF known /\ authUser.ok
                           THEN createAccessToken(identifier) ELSE accessTokens
      /\ UnchangedKeys

\* login({email, password, ip}): the limiter is asked under the normalized
\* address, the row is looked up under the address as it was typed; the
\* branch on a null answer of verifyCredentials is never taken
login(raw, password, ip) ==
  LET identifier == Normalize(raw)
      key == <<"login", identifier, ip>>
      loginCheck == CheckResult(identifier, ip)
      user == IF raw[2] = "plain" THEN UserByEmail(raw[1]) ELSE NoUser
      known == user.exists /\ isActive(user)
      authUser == verifyCredentials(user, password)
      st == RateLimiterRecordAttempt(key, RATE_LIMIT_CONFIG)
      blocks == getFailedAttempts(st) >= MAX_ATTEMPTS
      call == Call("login", "login", identifier, ip, WrongGuess)
      row == [user EXCEPT !.lastLoginAt = now]
  IN  /\ IF ~loginCheck.allowed
           THEN /\ last' = Thrown([call EXCEPT !.rlChecked = TRUE,
                                               !.isBlocked = loginCheck.isBlocked],
                                  "limit",
                                  IF loginCheck.isBlocked THEN BlockedLoginError
                                                          ELSE TooManyLoginsError)
                /\ UNCHANGED <<rateLimit, streak, failed, accountBlock, users, userCache>>
           ELSE IF ~known
             THEN /\ CanRecord(key)
                  /\ rateLimit' = [rateLimit EXCEPT ![key] = st]
                  /\ streak' = [streak EXCEPT ![key] =
                                  StreakAfterAttempt(key, RATE_LIMIT_CONFIG)]
                  /\ failed' = [failed EXCEPT ![identifier] =
                                  FailedAfter(identifier, key, blocks)]
                  /\ accountBlock' = IF blocks THEN blockAccount(identifier)
                                               ELSE accountBlock
                  /\ last' = Thrown([call EXCEPT !.rlChecked = TRUE, !.allowed = TRUE],
                                    IF user.exists THEN "inactive" ELSE "notfound",
                                    InvalidCredentials)
                  /\ UNCHANGED <<users, userCache>>
             ELSE IF ~authUser.ok
               THEN /\ last' = Thrown([call EXCEPT !.rlChecked = TRUE, !.allowed = TRUE],
                                      "password", authUser.err)
                    /\ UNCHANGED <<rateLimit, streak, failed, accountBlock, users, userCache>>
               ELSE /\ clearLoginAttempts(identifier, ip)
                    /\ users' = [users EXCEPT ![identifier] = row]
                    /\ userCache' = [userCache EXCEPT ![identifier] =
                                       CacheSet(Serialize(row), USER_CACHE_TTL)]
                    /\ last' = [call EXCEPT !.ok = TRUE, !.success = TRUE,
                                            !.rlChecked = TRUE, !.allowed = TRUE,
                                            !.user = Serialize(row)]
                    /\ UNCHANGED failed
      /\ UNCHANGED <<now, tokenHash, listCache, nextTok, issued, blacklist, inflight, granted>>
      /\ accessTokens' = IF loginCheck.allowed /\ known /\ authUser.ok
                           THEN createAccessToken(identifier) ELSE accessTokens
      /\ UnchangedKeys

UserNext ==
  \/ \E id \in Identifiers : findById(id)
  \/ list
  \/ \E id \in Identifiers, pw \in Passwords : create(id, pw)
  \/ \E id \in Identifiers, pw \in Passwords : createSuperAdmin(id, pw)
  \/ \E id \in Identifiers, active \in BOOLEAN : update(id, active)
  \/ \E id \in Identifiers : delete(id)
  \/ \E id \in Identifiers : anonymize(id)
  \/ \E id \in Identifiers, pw \in Passwords, cur \in Passwords :
       updatePassword(id, pw, cur)
  \/ \E id \in Identifiers : revokeAllTokens(id, TRUE, TRUE)
  \/ \E raw \in RawIds, pw \in Passwords, ip \in TokenIps : login(raw, pw, ip)
  \/ \E raw \in RawIds, ip \in TokenIps, t \in Candidates : verifyEmail(raw, t, ip)
  \/ \E raw \in RawIds, ip \in TokenIps, t \in Candidates, pw \in Passwords :
       resetPassword(raw, t, pw, ip, TRUE)

\* every address is registered and has asked, from the one client address,
\* for a verification token and then for a reset token: the state that
\* requestEmailVerification and requestPasswordReset leave behind
FirstAttempt(cfg) ==
  [set |-> TRUE, attempts |-> 1, windowStart |-> 0, blockedUntil |-> Null,
   expiresAt |-> cfg.windowMs]

UserInit ==
  /\ now = 0
  /\ tokenHash = [k \in TokenKeys |->
                    IF k[1] = "verify_email"
                      THEN [set |-> TRUE, value |-> Sha256(1), expiresAt |-> VERIFY_TTL]
                      ELSE [set |-> TRUE, value |-> Sha256(2), expiresAt |-> RESET_TTL]]
  /\ rateLimit = [k \in RLKeys |->
                    IF k[1] \in Purposes /\ k[3] \in TokenIps
                      THEN FirstAttempt(getDefaultConfig) ELSE NoLimit]
  /\ accountBlock = [i \in Identifiers |-> NoEntry]
  /\ users = [i \in Identifiers |-> UserRow(i)]
  /\ userCache = [i \in Identifiers |-> NoUserEntry]
  /\ listCache = NoListEntry
  /\ nextTok = 3
  /\ issued = [k \in TokenKeys |->
                 [tok |-> IF k[1] = "verify_email" THEN 1 ELSE 2, prev |-> WrongGuess,
                  at |-> 0, used |-> FALSE]]
  /\ failed = [i \in Identifiers |-> NoFailed]
  /\ streak = [k \in LoginKeys |-> NoStreak]
  /\ last = NoCall
  /\ blacklist = {}
  /\ accessTokens = [i \in Identifiers |-> 0]
  /\ inflight = [p \in Requests |-> Idle]
  /\ granted = [k \in TokenLimitKeys |-> NoStreak]
  /\ KeyIdle

UserSpec == UserInit /\ [][UserNext]_vars

C13_ListCacheCurrent ==
  CacheLive(listCache) => listCache.value = CurrentList

(* ---------------------------------------------------------------------- *)
(* AppKeyService: the four parts of the service, each on its own          *)
(* ---------------------------------------------------------------------- *)
\* the table holds one key, made a day less 30 seconds ago or inserted
\* without an expiry
KeyInit ==
  /\ MainReady
  /\ keyNow = 0
  /\ \E expiresAt \in {Null, 1} :
       keys = [i \in KeyIds |->
                 IF i = 1
                   THEN [created |-> TRUE, exists |-> TRUE, value |-> "a",
                         isActive |-> TRUE, expiresAt |-> expiresAt]
                   ELSE NoKey]
  /\ activeCache = NoKeysEntry
  /\ allCache = NoKeysEntry
  /\ keyLimit = [k \in KeyIps \X Secrets |-> NoRate]
  /\ keyLog = [m \in LogMembers |-> Null]
  /\ lookup = [keys |-> <<>>, providedKey |-> "a"]
  /\ keyLast = NoKeyCall

KeyNext ==
  \/ \E value \in Secrets, active \in BOOLEAN, days \in Days : db_create(value, active, days)
  \/ \E id \in KeyIds, active \in BOOLEAN, days \in Days \cup {Null} :
       db_update(id, active, days)
  \/ \E id \in KeyIds : db_delete(id)
  \/ db_list
  \/ listActive
  \/ \E id \in KeyIds : disableKey(id)
  \/ \E t \in KeyTimes : KeyTick(t)

KeySpec == KeyInit /\ [][KeyNext]_vars

\* the lists findValidKey is given: keys with a secret and an expiry
LookupKeys == [value : Secrets, expiresAt : KeyTimes \cup {Null}]

LookupInit ==
  /\ MainReady
  /\ keyNow = 0
  /\ keys = NoKeys
  /\ activeCache = NoKeysEntry
  /\ allCache = NoKeysEntry
  /\ keyLimit = [k \in KeyIps \X Secrets |-> NoRate]
  /\ keyLog = [m \in LogMembers |-> Null]
  /\ \E n \in 0..MaxLen : \E ks \in [1..n -> LookupKeys] : \E providedKey \in Secrets :
       lookup = [keys |-> ks, providedKey |-> providedKey]
  /\ keyLast = NoKeyCall

LookupNext ==
  \/ findValidKey
  \/ \E t \in KeyTimes : KeyTick(t)

LookupSpec == LookupInit /\ [][LookupNext]_vars

KeyRateNext ==
  \/ \E ip \in KeyIps, key \in Secrets : checkRateLimit(ip, key)
  \/ \E ip \in KeyIps, key \in Secrets : incrementRateLimit(ip, key)
  \/ \E ip \in KeyIps, key \in Secrets : handleFailedAttempt(key, ip)
  \/ \E key \in Secrets : handleSuccessfulAttempt(key)
  \/ \E t \in KeyTimes : KeyTick(t)

KeyRateSpec == LoginInit /\ [][KeyRateNext]_vars

KeyLogNext ==
  \/ \E payload \in LogPayloads : loggerAttempt(payload)
  \/ \E t \in KeyTimes : KeyTick(t)

KeyLogSpec == LoginInit /\ [][KeyLogNext]_vars

\* C14: every operation that changes a row of app_keys (db_create,
\* db_update, db_delete, disableKey, the deactivation of expired keys in
\* listActive) leaves no cached snapshot behind that predates the change:
\* the all-keys entry, when it is still served, holds the rows of the
\* table, and the active-keys entry the active rows.
C14_ChangeInvalidatesBothCaches ==
  [][keys' # keys =>
       /\ (KeyCacheLive(allCache) => allCache.value = AllKeys)'
       /\ (KeyCacheLive(activeCache) => activeCache.value = ActiveKeys(keys))']_vars

\* the step is a call of findValidKey
FindStep == keyNow' = keyNow /\ keyLast'.op = "findValidKey"

\* the positions of the list whose key is not expired and has the secret
ValidAt(ks, providedKey) ==
  {i \in 1..Len(ks) :
     /\ ks[i].value = providedKey
     /\ (ks[i].expiresAt = Null \/ ks[i].expiresAt >= keyNow)}

\* C15: findValidKey returns the first key in list order that is not
\* expired and whose secret equals the provided one, and none when there is
\* no such key; a key whose expiresAt lies in the past is never returned.
C15_FirstValidKey ==
  [][FindStep =>
       LET valid == ValidAt(lookup.keys, lookup.providedKey)
           found == keyLast'.found
       IN  /\ valid = {} => found = 0
           /\ valid # {} => found \in valid /\ \A i \in valid : found <= i
           /\ found # 0 => ~(lookup.keys[found].expiresAt # Null
                              /\ lookup.keys[found].expiresAt < keyNow)]_vars

\* an expired key with the secret is passed over and the key behind it,
\* which expires at this very instant, is returned
C15_Witness ==
  /\ keyLast.op = "findValidKey"
  /\ keyLast.found = 2
  /\ lookup.keys[1].value = lookup.providedKey
  /\ lookup.keys[1].expiresAt # Null
  /\ lookup.keys[1].expiresAt < keyNow
  /\ lookup.keys[2].expiresAt = keyNow

\* C16: once blockedUntil is set for a pair (ip, key), every checkRateLimit
\* made before blockedUntil reports the pair as limited and leaves its
\* record in place, whether or not the 60 seconds after firstAttempt are
\* over.
C16_BlockOutlivesWindow ==
  [][\A ip \in KeyIps, key \in Secrets :
       (/\ keyNow' = keyNow
        /\ keyLast'.op = "checkRateLimit"
        /\ keyLast'.ip = ip
        /\ keyLast'.key = key
        /\ KeyCacheLive(keyLimit[<<ip, key>>])
        /\ keyLimit[<<ip, key>>].blockedUntil # Null
        /\ keyNow < keyLimit[<<ip, key>>].blockedUntil)
       => /\ keyLast'.limited
          /\ keyLimit'[<<ip, key>>] = keyLimit[<<ip, key>>]]_vars

\* the members the log holds
Entries(log) == {m \in LogMembers : log[m] # Null}

\* C17: loggerAttempt with success = true leaves the log unchanged; with
\* success = false it appends exactly one entry, scored by the current
\* time, and removes the entries older than the retention: afterwards the
\* log holds no entry with score <= now - TTL and every entry newer than
\* that is still there.
C17_FailedOnlyAppendOnePrune ==
  [][(keyNow' = keyNow /\ keyLast'.op = "loggerAttempt") =>
       LET kept == {m \in Entries(keyLog) : keyLog[m] > keyNow - LOGGER_TTL}
       IN  IF keyLast'.success
             THEN keyLog' = keyLog
             ELSE /\ Cardinality(Entries(keyLog')) = Cardinality(kept) + 1
                  /\ \E m \in Entries(keyLog') \ Entries(keyLog) : keyLog'[m] = keyNow
                  /\ \A m \in Entries(keyLog') : keyLog'[m] > keyNow - LOGGER_TTL
                  /\ \A m \in kept : keyLog'[m] = keyLog[m]]_vars

(* ---------------------------------------------------------------------- *)
(* Anonymization and the blacklist                                        *)
(* ---------------------------------------------------------------------- *)
ForbiddenError == [message |-> "Este email ou username nao pode ser utilizado", status |-> 403]

\* UsersController.store: the address is looked up in the blacklist, then
\* UserService.create makes the user
store(id, password) ==
  LET call == Call("store", "none", id, "", WrongGuess)
  IN  /\ ~isBlacklisted(id) => ~users[id].exists
      /\ IF isBlacklisted(id)
           THEN /\ last' = Thrown(call, "blacklisted", ForbiddenError)
                /\ UNCHANGED <<users, listCache>>
           ELSE /\ users' = [users EXCEPT ![id] = [UserRow(id) EXCEPT !.password = password]]
                /\ listCache' = invalidateList
                /\ last' = [call EXCEPT !.ok = TRUE]
      /\ UNCHANGED <<now, tokenHash, rateLimit, userCache, nextTok, issued>>
      /\ UnchangedLogin

BlacklistNext ==
  \/ \E id \in Identifiers, pw \in Passwords : store(id, pw)
  \/ \E id \in Identifiers : anonymize(id)
  \/ \E id \in Identifiers : callAddToBlacklist(id)
  \/ \E id \in Identifiers, active \in BOOLEAN : update(id, active)
  \/ \E id \in Identifiers : delete(id)
  \/ \E id \in Identifiers : findById(id)
  \/ list

BlacklistSpec == Init /\ [][BlacklistNext]_vars

\* C21: anonymize(user) of a user whose e-mail address was E returns true
\* and leaves the digest of E in the blacklist, so that isBlacklisted({email:
\* E}) is true afterwards.
C21_AnonymizeBlacklistsEmail ==
  [][\A id \in Identifiers :
       (last'.op = "anonymize" /\ last'.id = id /\ users[id].exists
        /\ users'[id] = AnonymizedRow(id) /\ users[id] # AnonymizedRow(id))
       => /\ last'.ok
          /\ hashValue(users[id].email) \in blacklist']_vars

(* ---------------------------------------------------------------------- *)
(* E-mail verification, with the user cache in use                        *)
(* ---------------------------------------------------------------------- *)
VerifyNext ==
  \/ \E raw \in RawIds, ip \in TokenIps, sent \in BOOLEAN :
       requestEmailVerification(raw, ip, sent)
  \/ \E raw \in RawIds, ip \in TokenIps, t \in Candidates : verifyEmail(raw, t, ip)
  \/ \E id \in Identifiers : findById(id)
  \/ list
  \/ \E t \in TokenTimes : Tick(t)

VerifySpec == LoginInit /\ [][VerifyNext]_vars

\* C22: a request the limiter allows stores the digest of the token, never
\* the token, under verify_email:<normal form of the identifier> with the
\* TTL of 24 hours; a verifyEmail that succeeds leaves emailVerifiedAt set,
\* the stored digest deleted, the cache entry of the user deleted and the
\* limiter state of verify:<identifier> and the ip cleared.
C22_RequestStoresDigestVerifyCleans ==
  [][\A raw \in RawIds, ip \in TokenIps :
       LET email == Normalize(raw)
           key == getVerifyKey(email)
       IN  /\ (RequestStep("verify") /\ last'.id = email /\ last'.ip = ip /\ last'.allowed)
                => /\ tokenHash'[key].set
                   /\ tokenHash'[key].value = Sha256(last'.tok)
                   /\ tokenHash'[key].value # last'.tok
                   /\ tokenHash'[key].expiresAt = now + VERIFY_TTL
                   /\ \A k \in TokenKeys \ {key} : tokenHash'[k] = tokenHash[k]
           /\ (ConfirmStep("verify") /\ last'.id = email /\ last'.ip = ip /\ last'.ok)
                => /\ users'[email].emailVerifiedAt = now
                   /\ users'[email].emailVerifiedAt # Null
                   /\ tokenHash'[key] = NoEntry
                   /\ ~userCache'[email].set
                   /\ rateLimit'[<<"verify", email, ip>>] = NoLimit]_vars

\* a verification has succeeded for a user the cache had served, on the
\* token a request stored, and everything it leaves is in place
C22_Witness ==
  /\ last.op = "verifyEmail" /\ last.ok /\ last.tok # WrongGuess
  /\ issued[getVerifyKey(last.id)].used
  /\ users[last.id].emailVerifiedAt # Null
  /\ tokenHash[getVerifyKey(last.id)] = NoEntry
  /\ ~userCache[last.id].set
  /\ rateLimit[<<"verify", last.id, last.ip>>] = NoLimit

(* ---------------------------------------------------------------------- *)
(* verifyEmail and resetPassword, one await at a time                     *)
(* Two requests run the handlers; each step below is the code between two *)
(* awaits, and a request is suspended wherever inflight[r].pc says.       *)
(* ---------------------------------------------------------------------- *)
ConfirmCall(r) ==
  Call(ConfirmOp(inflight[r].purpose), inflight[r].purpose, inflight[r].email,
       inflight[r].ip, inflight[r].tok)

ConfirmFrame ==
  /\ UNCHANGED <<now, nextTok, accountBlock, failed, streak, blacklist, accessTokens, granted>>
  /\ UnchangedKeys

\* the call leaves with the outcome: the request is free for a next call,
\* and keeps the record of what the call has done
Leave(r, outcome) ==
  /\ inflight' = [inflight EXCEPT ![r].pc = "done"]
  /\ last' = outcome

\* await TokenService.validateToken({identifier, token, cacheKey})
confirmValidate(r, purpose, raw, token, ip, password) ==
  LET normalizedEmail == Normalize(raw)
      v == validateToken(token, PurposeKey(purpose, normalizedEmail))
      call == [Idle EXCEPT !.purpose = purpose, !.email = normalizedEmail, !.ip = ip,
                           !.tok = token, !.password = password]
  IN  /\ inflight[r].pc \in {"idle", "done"}
      /\ IF v.ok
           THEN /\ inflight' = [inflight EXCEPT ![r] = [call EXCEPT !.pc = "validated"]]
                /\ UNCHANGED last
           ELSE /\ inflight' = [inflight EXCEPT ![r] = [call EXCEPT !.pc = "done"]]
                /\ last' = Thrown(Call(ConfirmOp(purpose), purpose, normalizedEmail, ip, token),
                                  v.cause, v.err)
      /\ UNCHANGED <<tokenHash, rateLimit, users, userCache, listCache, issued>>
      /\ ConfirmFrame

\* await User.query().where('email', normalizedEmail).firstOrFail(), the
\* test of isActive / isDeleted of resetPassword, and await user.save()
confirmSave(r) ==
  LET c == inflight[r]
      user == UserByEmail(c.email)
  IN  /\ c.pc = "validated"
      /\ IF ~user.exists
           THEN /\ Leave(r, Thrown(ConfirmCall(r), "notfound", NotFoundError))
                /\ UNCHANGED users
           ELSE IF c.purpose = "reset" /\ (~user.isActive \/ user.isDeleted)
             THEN /\ Leave(r, Thrown(ConfirmCall(r), "inactive", InactiveError))
                  /\ UNCHANGED users
             ELSE /\ users' = IF c.purpose = "verify"
                                THEN [users EXCEPT ![c.email].emailVerifiedAt = now]
                                ELSE [users EXCEPT ![c.email].password = c.password]
                  /\ inflight' = [inflight EXCEPT ![r].pc = "saved", ![r].mutated = TRUE]
                  /\ UNCHANGED last
      /\ UNCHANGED <<tokenHash, rateLimit, userCache, listCache, issued>>
      /\ ConfirmFrame

\* await sharedCache.user.invalidateUser(userId)
confirmInvalidate(r) ==
  LET c == inflight[r]
  IN  /\ c.pc = "saved"
      /\ userCache' = invalidateUser(userCache, c.email)
      /\ listCache' = invalidateList
      /\ inflight' = [inflight EXCEPT ![r].pc = "invalidated"]
      /\ UNCHANGED <<tokenHash, rateLimit, users, issued, last>>
      /\ ConfirmFrame

\* await CacheService.delete(getVerifyKey(email) / getResetKey(email))
confirmDelete(r) ==
  LET c == inflight[r]
      key == PurposeKey(c.purpose, c.email)
  IN  /\ c.pc = "invalidated"
      /\ tokenHash' = [tokenHash EXCEPT ![key] = CacheDelete]
      /\ issued' = Use(key, c.tok)
      /\ inflight' = [inflight EXCEPT ![r].pc = "deleted"]
      /\ UNCHANGED <<rateLimit, users, userCache, listCache, last>>
      /\ ConfirmFrame

\* await RateLimiter.clearAttempts(`verify:${email}` / `reset:${email}`, ip),
\* then return true (verifyEmail) or await sendSuccessEmail and return true
confirmClear(r, sent) ==
  LET c == inflight[r]
      call == [ConfirmCall(r) EXCEPT !.ok = TRUE]
  IN  /\ c.pc = "deleted"
      /\ c.purpose = "verify" => sent
      /\ rateLimit' = [rateLimit EXCEPT ![<<c.purpose, c.email, c.ip>>] =
                         RateLimiterClearAttempts]
      /\ Leave(r, IF c.purpose = "verify" THEN call
                                          ELSE EmailServiceSend(call, "success", sent))
      /\ UNCHANGED <<tokenHash, users, userCache, listCache, issued>>
      /\ ConfirmFrame

ConfirmRaceNext ==
  \/ \E r \in Requests, purpose \in Purposes, raw \in RawIds, t \in Candidates,
        ip \in TokenIps, pw \in Passwords :
       confirmValidate(r, purpose, raw, t, ip, pw)
  \/ \E r \in Requests : confirmSave(r)
  \/ \E r \in Requests : confirmInvalidate(r)
  \/ \E r \in Requests : confirmDelete(r)
  \/ \E r \in Requests, sent \in BOOLEAN : confirmClear(r, sent)
  \/ \E id \in Identifiers, active \in BOOLEAN : update(id, active)
  \/ \E id \in Identifiers : findById(id)

ConfirmRaceSpec == UserInit /\ [][ConfirmRaceNext]_vars

\* the request has passed validateToken with the token and has saved the
\* change of its purpose
Consumed(r, purpose, email, t) ==
  /\ inflight[r].mutated
  /\ inflight[r].purpose = purpose /\ inflight[r].email = email /\ inflight[r].tok = t

\* C23: of two confirm calls that run at the same time with the same valid
\* token, at most one passes validateToken and performs the change of the
\* purpose (sets emailVerifiedAt, sets the password).
C23_TokenConsumedOnce ==
  \A purpose \in Purposes, email \in Identifiers, t \in Tokens :
    ~(Consumed("r1", purpose, email, t) /\ Consumed("r2", purpose, email, t))

ListedKeys ==
  {NoKey} \cup [created : {TRUE}, exists : {TRUE}, value : {"a"}, isActive : BOOLEAN,
                expiresAt : KeyTimes \cup {Null}]

ListInit ==
  /\ MainReady
  /\ keyNow = 0
  /\ keys \in [KeyIds -> ListedKeys]
  /\ activeCache = NoKeysEntry
  /\ allCache = NoKeysEntry
  /\ keyLimit = [k \in KeyIps \X Secrets |-> NoRate]
  /\ keyLog = [m \in LogMembers |-> Null]
  /\ lookup = [keys |-> <<>>, providedKey |-> "a"]
  /\ keyLast = NoKeyCall

ListNext ==
  \/ listActive
  \/ \E id \in KeyIds : disableKey(id)
  \/ \E t \in KeyTimes : KeyTick(t)

ListSpec == ListInit /\ [][ListNext]_vars

\* a call of listActive has just returned
ListActiveStep == keyNow' = keyNow /\ keyLast'.op = "listActive"

\* the key is active and has no expiry or an expiry after now
LiveKey(k) == k.exists /\ k.isActive /\ (k.expiresAt = Null \/ k.expiresAt > keyNow)

\* C25: on a cache miss listActive first sets isActive = false on every
\* active key whose expiresAt is at or before now, then returns exactly the
\* keys that are active with no expiry or an expiry after now, and caches a
\* snapshot of exactly that set; on a cache hit it returns the cached
\* snapshot and changes nothing in the store.
C25_ListActiveSweepsThenLists ==
  [][ListActiveStep =>
       IF KeyCacheLive(activeCache)
         THEN /\ keyLast'.keys = activeCache.value
              /\ UNCHANGED <<keys, activeCache>>
         ELSE /\ \A i \in KeyIds :
                   /\ keys'[i] =
                        IF keys[i].exists /\ keys[i].isActive /\ keys[i].expiresAt # Null
                           /\ keys[i].expiresAt <= keyNow
                          THEN [keys[i] EXCEPT !.isActive = FALSE]
                          ELSE keys[i]
                   /\ keyLast'.keys[i] = (IF LiveKey(keys[i]) THEN keys[i] ELSE NoKey)
              /\ activeCache'.set
              /\ activeCache'.value = keyLast'.keys
              /\ activeCache'.expiresAt = keyNow + CACHE_TTL]_vars

\* listActive has swept an expired key, returned a live one and cached
\* what it returned
C25_Witness ==
  /\ keyLast.op = "listActive"
  /\ KeyCacheLive(activeCache) /\ activeCache.value = keyLast.keys
  /\ \E i \in KeyIds :
       /\ keys[i].exists /\ ~keys[i].isActive
       /\ keys[i].expiresAt # Null /\ keys[i].expiresAt <= keyNow
       /\ ~keyLast.keys[i].exists
  /\ \E j \in KeyIds : keyLast.keys[j].exists /\ keyLast.keys[j] = keys[j]

(* ---------------------------------------------------------------------- *)
(* Access tokens: login creates one, revokeAllTokens deletes them         *)
(* ---------------------------------------------------------------------- *)
RevokeNext ==
  \/ \E id \in Identifiers, pw \in Passwords : create(id, pw)
  \/ \E raw \in RawIds, pw \in Passwords, ip \in TokenIps : login(raw, pw, ip)
  \/ \E id \in Identifiers, revoked \in BOOLEAN, invalidated \in BOOLEAN :
       revokeAllTokens(id, revoked, invalidated)
  \/ \E id \in Identifiers : findById(id)
  \/ \E id \in Identifiers, active \in BOOLEAN : update(id, active)
  \/ \E t \in TokenTimes : Tick(t)

RevokeSpec == Init /\ [][RevokeNext]_vars

\* C26: when revokeAllTokens(user) (AuthService.logout) succeeds the user has
\* no access token left and the cache holds no entry for the user; when the
\* revocation or the invalidation fails the call fails with the error
\* 'Falha ao revogar tokens' and does not return true.
C26_RevokeClearsOrFails ==
  [][\A id \in Identifiers :
       (now' = now /\ last'.op = "revokeAllTokens" /\ last'.id = id)
       => /\ last'.ok => (accessTokens'[id] = 0 /\ ~userCache'[id].set)
          /\ ~last'.ok => last'.err = RevokeFailed
          /\ (accessTokens'[id] # 0 \/ userCache'[id].set) => ~last'.ok]_vars

\* a user who had logged in, and so held a token and a cache entry, has
\* revoked the tokens with success
C26_Witness ==
  /\ last.op = "revokeAllTokens" /\ last.ok
  /\ users[last.id].lastLoginAt # Null
  /\ accessTokens[last.id] = 0
  /\ ~userCache[last.id].set

\* C27: checkRateLimit does not report as rate-limited a pair (ip, key)
\* that has fewer than MAX_ATTEMPTS failed attempts in the current window
\* of 60 seconds.
C27_BelowMaxNotLimited ==
  [][\A ip \in KeyIps, key \in Secrets :
       (/\ keyNow' = keyNow
        /\ keyLast'.op = "checkRateLimit"
        /\ keyLast'.ip = ip
        /\ keyLast'.key = key
        /\ (IF KeyCacheLive(keyLimit[<<ip, key>>])
               /\ keyNow - keyLimit[<<ip, key>>].firstAttempt <= RATE_LIMIT_WINDOW
              THEN keyLimit[<<ip, key>>].attempts ELSE 0) < KEY_MAX_ATTEMPTS)
       => ~keyLast'.limited]_vars

\* C28: after handleSuccessfulAttempt(key) the record rate_limit:<ip>:<key>
\* that handleFailedAttempt wrote is gone: the cache serves no record of the
\* key, for any ip.
C28_SuccessClearsRateRecord ==
  [][\A key \in Secrets :
       (keyNow' = keyNow /\ keyLast'.op = "handleSuccessfulAttempt" /\ keyLast'.key = key)
       => \A ip \in KeyIps : ~KeyCacheLive(keyLimit[<<ip, key>>])']_vars

\* a call of recordLoginAttempt with success = false has just returned
FailureStep(identifier, ip) ==
  /\ now' = now
  /\ last'.op = "recordLoginAttempt"
  /\ ~last'.success
  /\ last'.id = identifier
  /\ last'.ip = ip

\* the attempts the limiter counts under the key in the running window
Counted(key) ==
  IF RLBlocked(rateLimit[key]) \/ RLWindowOpen(rateLimit[key], RATE_LIMIT_CONFIG)
    THEN rateLimit[key].attempts ELSE 0

\* C29: recordLoginAttempt with success = false records exactly one attempt
\* of the limiter for login:identifier and the ip, and sets the account
\* block, blockedUntil = now + 2 hours, exactly when the failure count then
\* read for the identifier and the ip has reached maxAttempts; with fewer
\* failures no account block is created or changed.
C29_FailureCountsOnceBlocksAtMax ==
  [][\A id \in Identifiers, ip \in Ips :
       FailureStep(id, ip) =>
         LET key == <<"login", id, ip>>
         IN  /\ rateLimit'[key].attempts = Counted(key) + 1
             /\ \A k \in RLKeys \ {key} : rateLimit'[k] = rateLimit[k]
             /\ IF getFailedAttempts(rateLimit[key])' >= MAX_ATTEMPTS
                  THEN /\ accountBlock'[id].set
                       /\ accountBlock'[id].value = now + EXTENDED_BLOCK_TIME_MS
                       /\ accountBlock'[id].expiresAt = now + EXTENDED_BLOCK_TIME_MS
                  ELSE accountBlock'[id] = accountBlock[id]
             /\ \A other \in Identifiers \ {id} : accountBlock'[other] = accountBlock[other]]_vars

\* the failure that brought the count to maxAttempts has just blocked the
\* account for two hours
C29_Witness ==
  /\ last.op = "recordLoginAttempt" /\ ~last.success /\ last.isBlocked
  /\ rateLimit[<<"login", last.id, last.ip>>].attempts = MAX_ATTEMPTS
  /\ accountBlock[last.id].set
  /\ accountBlock[last.id].value = now + EXTENDED_BLOCK_TIME_MS

(* ---------------------------------------------------------------------- *)
(* requestEmailVerification and requestPasswordReset, with the await of   *)
(* RateLimiter.check apart from what follows it                           *)
(* ---------------------------------------------------------------------- *)
ThrottleTimes == 0..MaxWait

RequestOp(purpose) ==
  IF purpose = "verify" THEN "requestEmailVerification" ELSE "requestPasswordReset"

\* one more token under the key: it continues the count when it falls inside
\* the window the first token of the count opened
GrantedAfter(key, cfg) ==
  LET h == granted[key]
  IN  IF h.n > 0 /\ now - h.first < cfg.windowMs
        THEN [n |-> h.n + 1, first |-> h.first, at |-> now]
        ELSE [n |-> 1, first |-> now, at |-> now]

ThrottleFrame ==
  /\ UNCHANGED <<now, users, userCache, listCache, accountBlock, failed, streak,
                 blacklist, accessTokens>>
  /\ UnchangedKeys

\* the lookup of the user (requestPasswordReset) and await RateLimiter.check
requestCheck(r, purpose, raw, ip, sent) ==
  LET normalizedEmail == Normalize(raw)
      user == UserByEmail(normalizedEmail)
      rateLimitCheck == RateLimiterCheck(<<purpose, normalizedEmail, ip>>, getDefaultConfig)
      call == Call(RequestOp(purpose), purpose, normalizedEmail, ip, WrongGuess)
      local == [Idle EXCEPT !.purpose = purpose, !.email = normalizedEmail, !.ip = ip]
  IN  /\ inflight[r].pc \in {"idle", "done"}
      /\ purpose = "verify" => sent
      /\ IF purpose = "reset" /\ ~user.exists
           THEN /\ inflight' = [inflight EXCEPT ![r] = [local EXCEPT !.pc = "done"]]
                /\ last' = Thrown(call, "notfound", NotFoundError)
           ELSE IF purpose = "reset" /\ (~user.isActive \/ user.isDeleted)
             THEN /\ inflight' = [inflight EXCEPT ![r] = [local EXCEPT !.pc = "done"]]
                  /\ last' = Thrown(call, "inactive", InactiveError)
             ELSE IF ~rateLimitCheck.allowed
               THEN /\ inflight' = [inflight EXCEPT ![r] = [local EXCEPT !.pc = "done"]]
                    /\ last' = IF purpose = "verify"
                                 THEN [call EXCEPT !.ok = FALSE, !.rlChecked = TRUE]
                                 ELSE EmailServiceSend(
                                        [call EXCEPT !.ok = FALSE, !.rlChecked = TRUE],
                                        "blocked", sent)
               ELSE /\ inflight' = [inflight EXCEPT ![r] =
                                      [local EXCEPT !.pc = "checked",
                                         !.attemptsRemaining = rateLimitCheck.attemptsRemaining]]
                    /\ UNCHANGED last
      /\ UNCHANGED <<tokenHash, rateLimit, nextTok, issued, granted>>
      /\ ThrottleFrame

\* await RateLimiter.recordAttempt, generateSecureToken, storeTokenHash and
\* the dispatch of the token
requestIssue(r, sent) ==
  LET c == inflight[r]
      rlKey == <<c.purpose, c.email, c.ip>>
      gen == generateSecureToken
      call == Call(RequestOp(c.purpose), c.purpose, c.email, c.ip, WrongGuess)
  IN  /\ c.pc = "checked"
      /\ nextTok <= MaxIssued
      /\ CanRecord(rlKey)
      /\ rateLimit' = [rateLimit EXCEPT
                         ![rlKey] = RateLimiterRecordAttempt(rlKey, getDefaultConfig)]
      /\ nextTok' = nextTok + 1
      /\ issued' = Issue(PurposeKey(c.purpose, c.email), gen.token)
      /\ tokenHash' = storeTokenHash(PurposeKey(c.purpose, c.email), gen.hash,
                                     PurposeTTL(c.purpose))
      /\ granted' = [granted EXCEPT ![rlKey] = GrantedAfter(rlKey, getDefaultConfig)]
      /\ inflight' = [inflight EXCEPT ![r].pc = "done", ![r].tok = gen.token]
      /\ last' = EmailServiceSend(
                    [call EXCEPT !.ok = TRUE, !.rlChecked = TRUE, !.tok = gen.token,
                                 !.allowed = TRUE],
                    IF c.purpose = "verify" THEN "verification" ELSE "reset", sent)
      /\ ThrottleFrame

ThrottleNext ==
  \/ \E r \in Requests, purpose \in Purposes, raw \in RawIds, ip \in TokenIps :
       requestCheck(r, purpose, raw, ip, TRUE)
  \/ \E r \in Requests : requestIssue(r, TRUE)
  \/ \E t \in ThrottleTimes : Tick(t)

ThrottleSpec == LoginInit /\ [][ThrottleNext]_vars

\* the attempts the limiter of the token requests counts under the key
Attempts(key) ==
  IF RLBlocked(rateLimit[key]) \/ RLWindowOpen(rateLimit[key], getDefaultConfig)
    THEN rateLimit[key].attempts ELSE 0

\* the block that follows the token that filled the window is in force
Throttled(key) ==
  /\ granted[key].n >= getDefaultConfig.maxAttempts
  /\ now < granted[key].at + getDefaultConfig.blockTimeMs

\* C30: requests for one (identifier, ip) taken one after the other issue
\* at most maxAttempts tokens within one window, and after the token that
\* fills the window no request passes the limiter until the block has
\* elapsed; requests that run at the same time exceed the bound only through
\* the gap between check and recordAttempt: a request issues a token beyond
\* the bound only when an attempt was recorded after its own check.
C30_BoundExceededOnlyInGap ==
  [][\A r \in Requests :
       LET c == inflight[r]
           key == <<c.purpose, c.email, c.ip>>
       IN  /\ (now' = now /\ c.pc = "checked" /\ inflight'[r].pc = "done"
               /\ granted'[key].n > getDefaultConfig.maxAttempts)
                => getDefaultConfig.maxAttempts - Attempts(key) < c.attemptsRemaining
           /\ \A k \in TokenLimitKeys :
                (/\ inflight'[r].pc = "checked" /\ c.pc # "checked"
                 /\ k = <<inflight'[r].purpose, inflight'[r].email, inflight'[r].ip>>)
                  => ~Throttled(k)]_vars

\* two requests have passed the check on the same answer and the second of
\* them has issued the token beyond the bound
C30_Witness ==
  \E k \in TokenLimitKeys :
    /\ granted[k].n > getDefaultConfig.maxAttempts
    /\ \A r \in Requests : inflight[r].pc = "done" /\ inflight[r].tok # 0
    /\ inflight["r1"].attemptsRemaining = inflight["r2"].attemptsRemaining

(* ---------------------------------------------------------------------- *)
(* The counter of failed attempts of the API keys                         *)
(* ---------------------------------------------------------------------- *)
\* the record of the pair is inside the window its first attempt opened
InsideWindow(rateKey) ==
  /\ keyLimit[rateKey].set
  /\ keyNow - keyLimit[rateKey].firstAttempt < RATE_LIMIT_WINDOW

\* C31: starting from no record, n calls of handleFailedAttempt for one
\* (ip, key) inside the window leave a record with attempts = n and
\* firstAttempt the time of the first call, and blockedUntil is set exactly
\* when n >= 5, to the time of the latest call plus 900 seconds.  By
\* induction on n: the call that finds no record writes attempts = 1 with
\* firstAttempt = now and no block; a call inside the window finds the
\* record of the call before, adds one to attempts, keeps firstAttempt and
\* sets blockedUntil = now + BLOCK_DURATION exactly when the new count has
\* reached 5; between two calls the record stays as the earlier call left it.
C31_FailedAttemptsCounted ==
  [][\A ip \in KeyIps, key \in Secrets :
       LET rateKey == <<ip, key>>
           before == keyLimit[rateKey]
           after == keyLimit'[rateKey]
       IN  /\ (/\ keyNow' = keyNow
               /\ keyLast'.op = "handleFailedAttempt"
               /\ keyLast'.ip = ip /\ keyLast'.key = key)
                => /\ after.set /\ keyNow < after.expiresAt
                   /\ ~before.set =>
                        /\ after.attempts = 1
                        /\ after.firstAttempt = keyNow
                        /\ after.blockedUntil = Null
                   /\ InsideWindow(rateKey) =>
                        /\ after.attempts = before.attempts + 1
                        /\ after.firstAttempt = before.firstAttempt
                        /\ after.blockedUntil =
                             (IF after.attempts >= KEY_MAX_ATTEMPTS
                                THEN keyNow + BLOCK_DURATION ELSE Null)
           /\ (keyNow' > keyNow /\ InsideWindow(rateKey)') => after = before]_vars

\* the fifth failed attempt inside the window has just set the block
C31_Witness ==
  \E ip \in KeyIps, key \in Secrets :
    /\ keyLast.op = "handleFailedAttempt" /\ keyLast.ip = ip /\ keyLast.key = key
    /\ keyLimit[<<ip, key>>].attempts = KEY_MAX_ATTEMPTS
    /\ keyLimit[<<ip, key>>].firstAttempt < keyNow
    /\ keyLimit[<<ip, key>>].blockedUntil = keyNow + BLOCK_DURATION

(* ---------------------------------------------------------------------- *)
(* UserService.findById and UserService.delete, one await at a time       *)
(* ---------------------------------------------------------------------- *)
UserFrame ==
  /\ UNCHANGED <<now, tokenHash, rateLimit, nextTok, issued, accountBlock, failed, streak,
                 blacklist, granted>>
  /\ UnchangedKeys

\* const cached = await CacheService.get<User>(cacheKey); if (cached) return cached
findByIdGet(r, id) ==
  LET call == Call("findById", "none", id, "", WrongGuess)
      local == [Idle EXCEPT !.purpose = "findById", !.email = id]
  IN  /\ inflight[r].pc \in {"idle", "done"}
      /\ IF CacheLive(userCache[id])
           THEN /\ inflight' = [inflight EXCEPT ![r] =
                                  [local EXCEPT !.pc = "done", !.user = userCache[id].value]]
                /\ last' = [call EXCEPT !.ok = TRUE, !.user = userCache[id].value]
           ELSE /\ inflight' = [inflight EXCEPT ![r] = [local EXCEPT !.pc = "missed"]]
                /\ UNCHANGED last
      /\ UNCHANGED <<users, userCache, listCache, accessTokens>>
      /\ UserFrame

\* const user = await User.findOrFail(id)
findByIdLoad(r) ==
  LET c == inflight[r]
      call == Call("findById", "none", c.email, "", WrongGuess)
  IN  /\ c.pc = "missed"
      /\ IF users[c.email].exists
           THEN /\ inflight' = [inflight EXCEPT ![r].pc = "loaded",
                                                ![r].user = Serialize(users[c.email])]
                /\ UNCHANGED last
           ELSE Leave(r, Thrown(call, "user", NotFoundError))
      /\ UNCHANGED <<users, userCache, listCache, accessTokens>>
      /\ UserFrame

\* await CacheService.set({key: cacheKey, value: user.serialize(), ttl: '1h'});
\* return user
findByIdStore(r) ==
  LET c == inflight[r]
      call == Call("findById", "none", c.email, "", WrongGuess)
  IN  /\ c.pc = "loaded"
      /\ userCache' = [userCache EXCEPT ![c.email] = CacheSet(c.user, USER_CACHE_TTL)]
      /\ Leave(r, [call EXCEPT !.ok = TRUE, !.user = c.user])
      /\ UNCHANGED <<users, listCache, accessTokens>>
      /\ UserFrame

\* delete(user): await this.invalidateUserCache(user.id)
deleteInvalidate(r, id) ==
  /\ inflight[r].pc \in {"idle", "done"}
  /\ users[id].exists
  /\ userCache' = invalidateUser(userCache, id)
  /\ listCache' = invalidateList
  /\ inflight' = [inflight EXCEPT ![r] =
                    [Idle EXCEPT !.pc = "uncached", !.purpose = "delete", !.email = id]]
  /\ UNCHANGED <<users, last, accessTokens>>
  /\ UserFrame

\* delete(user): await user.delete(); return true
deleteRow(r) ==
  LET c == inflight[r]
  IN  /\ c.pc = "uncached"
      /\ users' = [users EXCEPT ![c.email] = NoUser]
      /\ inflight' = [inflight EXCEPT ![r].pc = "done", ![r].mutated = TRUE]
      /\ last' = [Call("delete", "none", c.email, "", WrongGuess) EXCEPT !.ok = TRUE]
      /\ UNCHANGED <<userCache, listCache, accessTokens>>
      /\ UserFrame

DeleteRaceNext ==
  \/ \E r \in Requests, id \in Identifiers : findByIdGet(r, id)
  \/ \E r \in Requests : findByIdLoad(r)
  \/ \E r \in Requests : findByIdStore(r)
  \/ \E r \in Requests, id \in Identifiers : deleteInvalidate(r, id)
  \/ \E r \in Requests : deleteRow(r)
  \/ \E id \in Identifiers, pw \in Passwords : create(id, pw)
  \/ \E t \in LoginTimes : Tick(t)

DeleteRaceSpec == LoginInit /\ [][DeleteRaceNext]_vars

\* C32: once a delete(U) and a findById(U.id) that ran at the same time
\* have both completed, the per-id cache holds no snapshot of the deleted
\* user.
C32_NoSnapshotOfDeletedUser ==
  \A id \in Identifiers :
    (/\ \A r \in Requests : inflight[r].pc \in {"idle", "done"}
     /\ ~users[id].exists)
      => ~CacheLive(userCache[id])

(* ---------------------------------------------------------------------- *)
(* A confirm that runs while a request for the same identifier and        *)
(* purpose issues the next token                                          *)
(* ---------------------------------------------------------------------- *)
SupersedeNext ==
  \/ \E r \in Requests, purpose \in Purposes, raw \in RawIds, t \in Candidates,
        ip \in TokenIps, pw \in Passwords :
       confirmValidate(r, purpose, raw, t, ip, pw)
  \/ \E r \in Requests : confirmSave(r)
  \/ \E r \in Requests : confirmInvalidate(r)
  \/ \E r \in Requests : confirmDelete(r)
  \/ \E r \in Requests : confirmClear(r, TRUE)
  \/ \E r \in Requests, purpose \in Purposes, raw \in RawIds, ip \in TokenIps :
       requestCheck(r, purpose, raw, ip, TRUE)
  \/ \E r \in Requests : requestIssue(r, TRUE)

SupersedeSpec == UserInit /\ [][SupersedeNext]_vars

\* C33: a pending token leaves the store only through its own successful
\* confirmation, its expiry, or supersession by a newer request: while the
\* clock stands still, the digest of a token t disappears from its key only
\* when a request stores the digest of a newer token there, or when the
\* cleanup of a confirm that validated t itself deletes it; the cleanup of
\* a confirm of an older token never deletes the digest of a newer one.
C33_TokenLeavesByOwnConfirm ==
  [][\A key \in TokenKeys, t \in Tokens :
       (/\ now' = now
        /\ tokenHash[key].set /\ tokenHash[key].value = Sha256(t)
        /\ tokenHash'[key] # tokenHash[key])
       => \/ tokenHash'[key].set /\ tokenHash'[key].value = Sha256(nextTok)
             /\ nextTok' = nextTok + 1
          \/ \E r \in Requests :
               /\ inflight[r].pc = "invalidated" /\ inflight'[r].pc = "deleted"
               /\ PurposeKey(inflight[r].purpose, inflight[r].email) = key
               /\ inflight[r].tok = t]_vars

(* ---------------------------------------------------------------------- *)
(* Confirms that fail, among reads and changes of the user                *)
(* ---------------------------------------------------------------------- *)
RefusedNext ==
  \/ \E raw \in RawIds, ip \in TokenIps, t \in Candidates : verifyEmail(raw, t, ip)
  \/ \E raw \in RawIds, ip \in TokenIps, t \in Candidates, pw \in Passwords,
          sent \in BOOLEAN :
       resetPassword(raw, t, pw, ip, sent)
  \/ \E id \in Identifiers : findById(id)
  \/ list
  \/ \E id \in Identifiers, active \in BOOLEAN : update(id, active)
  \/ \E id \in Identifiers : delete(id)
  \/ \E t \in TokenTimes : Tick(t)

RefusedSpec == UserInit /\ [][RefusedNext]_vars

\* the confirm of the purpose has just failed on the token or on the account
RefusedStep(purpose) ==
  /\ ConfirmStep(purpose)
  /\ ~last'.ok
  /\ last'.cause \in {"absent", "mismatch", "notfound", "inactive"}

\* C34: a verifyEmail or resetPassword that fails (wrong or absent token,
\* user not found, inactive account) leaves the stored digests, the users,
\* the user cache, the list cache and the state of the limiter exactly as
\* they were: a token that was pending before the call validates after it,
\* and the wrong guess is not counted.
C34_FailedConfirmChangesNothing ==
  [][\A purpose \in Purposes :
       RefusedStep(purpose) =>
         /\ tokenHash' = tokenHash
         /\ users' = users
         /\ userCache' = userCache
         /\ listCache' = listCache
         /\ rateLimit' = rateLimit
         /\ \A key \in TokenKeys, t \in Tokens :
              validateToken(t, key).ok => validateToken(t, key).ok']_vars

\* a reset with a wrong guess has just been refused while the token of the
\* identifier is pending, its user is cached and its limiter holds a count
C34_Witness ==
  /\ last.op = "resetPassword" /\ last.cause = "mismatch" /\ last.tok = WrongGuess
  /\ \E t \in Tokens : validateToken(t, getResetKey(last.id)).ok
  /\ CacheLive(userCache[last.id])
  /\ RLLive(rateLimit[<<"reset", last.id, last.ip>>])

(* ---------------------------------------------------------------------- *)
(* The two token flows side by side                                       *)
(* ---------------------------------------------------------------------- *)
PurposeNext ==
  \/ \E raw \in RawIds, ip \in TokenIps : requestEmailVerification(raw, ip, TRUE)
  \/ \E raw \in RawIds, ip \in TokenIps : requestPasswordReset(raw, ip, TRUE)
  \/ \E raw \in RawIds, ip \in TokenIps, t \in Candidates : verifyEmail(raw, t, ip)
  \/ \E raw \in RawIds, ip \in TokenIps, t \in Candidates, pw \in Passwords :
       resetPassword(raw, t, pw, ip, TRUE)
  \/ \E t \in TokenTimes : Tick(t)

PurposeSpec == LoginInit /\ [][PurposeNext]_vars

\* the token begins to validate under the key of the purpose
BecomesValid(t, purpose, email) ==
  /\ ~validateToken(t, PurposeKey(purpose, email)).ok
  /\ validateToken(t, PurposeKey(purpose, email)).ok'

\* C35: a token issued by requestEmailVerification for an identifier never
\* validates in resetPassword for it, and a token issued by
\* requestPasswordReset never validates in verifyEmail: a token begins to
\* validate under the key of a purpose only in the step of the request of
\* that purpose that generates it (so it was issued by no request before),
\* the token a request of one purpose sends does not validate under the
\* key of the other purpose, and a confirm succeeds only with a token that
\* validates under the key of its own purpose.
C35_PurposesIsolated ==
  [][\A purpose \in Purposes, email \in Identifiers :
       LET other == IF purpose = "verify" THEN "reset" ELSE "verify"
       IN  /\ \A t \in Tokens :
                BecomesValid(t, purpose, email)
                  => /\ RequestStep(purpose) /\ last'.id = email /\ last'.tok = t
                     /\ t = nextTok /\ nextTok' = nextTok + 1
                     /\ ~validateToken(t, PurposeKey(other, email)).ok'
           /\ (ConfirmStep(purpose) /\ last'.ok /\ last'.id = email)
                => validateToken(last'.tok, PurposeKey(purpose, email)).ok]_vars

\* a password reset presented with the pending verification token of the
\* identifier has just been refused, a reset token being pending as well
C35_Witness ==
  /\ last.op = "resetPassword" /\ last.cause = "mismatch" /\ last.tok # WrongGuess
  /\ validateToken(last.tok, getVerifyKey(last.id)).ok
  /\ \E t \in Tokens : validateToken(t, getResetKey(last.id)).ok

(* ---------------------------------------------------------------------- *)
(* AuthService.login among the changes of the account it is asked about   *)
(* ---------------------------------------------------------------------- *)
GateNext ==
  \/ \E raw \in RawIds, pw \in Passwords, ip \in Ips : login(raw, pw, ip)
  \/ \E id \in Identifiers, pw \in Passwords : create(id, pw)
  \/ \E id \in Identifiers, active \in BOOLEAN : update(id, active)
  \/ \E id \in Identifiers : delete(id)
  \/ \E t \in LoginTimes : Tick(t)

GateSpec == LoginInit /\ [][GateNext]_vars

\* a call of login for the identifier from the ip has just ended
LoginStep(identifier, ip) ==
  /\ now' = now
  /\ last'.op = "login"
  /\ last'.id = identifier
  /\ last'.ip = ip

C37_FailuresAlikeAndCounted ==
  [][\A id \in Identifiers, ip \in Ips :
       (LoginStep(id, ip) /\ CheckResult(id, ip).allowed) =>
         LET key == <<"login", id, ip>>
         IN  IF last'.ok
               THEN getFailedAttempts(rateLimit[key])' = 0
               ELSE /\ last'.err = InvalidCredentials
                    /\ rateLimit'[key].attempts = Counted(key) + 1]_vars

(* ---------------------------------------------------------------------- *)
(* AuthService.login and logout with the awaits of createAccessToken and  *)
(* revokeAllAccessTokens apart.  accessTokens counts the rows of a user;  *)
(* inflight[r].tok counts the rows request r has listed that still exist: *)
(* the rows a request has listed are the oldest rows of the user, so the  *)
(* rows two requests have both listed are those of the shorter list.      *)
(* ---------------------------------------------------------------------- *)
\* login up to recordLoginAttempt({success: true}): checkLoginAttempt, the
\* lookup of the user, verifyCredentials and the record of the outcome
loginAdmit(r, raw, password, ip) ==
  LET identifier == Normalize(raw)
      key == <<"login", identifier, ip>>
      loginCheck == CheckResult(identifier, ip)
      user == IF raw[2] = "plain" THEN UserByEmail(raw[1]) ELSE NoUser
      known == user.exists /\ isActive(user)
      authUser == verifyCredentials(user, password)
      st == RateLimiterRecordAttempt(key, RATE_LIMIT_CONFIG)
      blocks == getFailedAttempts(st) >= MAX_ATTEMPTS
      call == [Call("login", "login", identifier, ip, WrongGuess) EXCEPT !.rlChecked = TRUE]
      local == [Idle EXCEPT !.purpose = "login", !.email = identifier, !.ip = ip,
                            !.password = password, !.user = user]
      leaves == [inflight EXCEPT ![r] = [local EXCEPT !.pc = "done"]]
  IN  /\ inflight[r].pc \in {"idle", "done"}
      /\ IF ~loginCheck.allowed
           THEN /\ last' = Thrown([call EXCEPT !.isBlocked = loginCheck.isBlocked], "limit",
                                  IF loginCheck.isBlocked THEN BlockedLoginError
                                                          ELSE TooManyLoginsError)
                /\ inflight' = leaves
                /\ UNCHANGED <<rateLimit, streak, failed, accountBlock>>
           ELSE IF ~known
             THEN /\ CanRecord(key)
                  /\ rateLimit' = [rateLimit EXCEPT ![key] = st]
                  /\ streak' = [streak EXCEPT ![key] =
                                  StreakAfterAttempt(key, RATE_LIMIT_CONFIG)]
                  /\ failed' = [failed EXCEPT ![identifier] =
                                  FailedAfter(identifier, key, blocks)]
                  /\ accountBlock' = IF blocks THEN blockAccount(identifier)
                                               ELSE accountBlock
                  /\ last' = Thrown([call EXCEPT !.allowed = TRUE],
                                    IF user.exists THEN "inactive" ELSE "notfound",
                                    InvalidCredentials)
                  /\ inflight' = leaves
             ELSE IF ~authUser.ok
               THEN /\ last' = Thrown([call EXCEPT !.allowed = TRUE], "password", authUser.err)
                    /\ inflight' = leaves
                    /\ UNCHANGED <<rateLimit, streak, failed, accountBlock>>
               ELSE /\ clearLoginAttempts(identifier, ip)
                    /\ inflight' = [inflight EXCEPT ![r] = [local EXCEPT !.pc = "admitted"]]
                    /\ UNCHANGED <<failed, last>>
      /\ UNCHANGED <<now, tokenHash, users, userCache, listCache, nextTok, issued, blacklist,
                     accessTokens, granted>>
      /\ UnchangedKeys

\* logout(user): revokeAllTokens(user) is entered
logoutEnter(r, id) ==
  /\ inflight[r].pc \in {"idle", "done"}
  /\ users[id].exists
  /\ inflight' = [inflight EXCEPT ![r] =
                    [Idle EXCEPT !.pc = "leaving", !.purpose = "logout", !.email = id]]
  /\ UNCHANGED <<users, userCache, listCache, accessTokens, last>>
  /\ UserFrame

\* revokeAllAccessTokens: const tokens = await User.accessTokens.all(user)
tokensList(r) ==
  LET c == inflight[r]
  IN  /\ c.pc \in {"admitted", "leaving"}
      /\ inflight' = [inflight EXCEPT ![r].pc = "listed", ![r].tok = accessTokens[c.email]]
      /\ UNCHANGED <<users, userCache, listCache, accessTokens, last>>
      /\ UserFrame

\* revokeAllAccessTokens: await Promise.all(tokens.map((t) =>
\* User.accessTokens.delete(user, t.identifier))): the listed rows that
\* still exist are deleted
tokensDelete(r) ==
  LET c == inflight[r]
  IN  /\ c.pc = "listed"
      /\ accessTokens' = [accessTokens EXCEPT ![c.email] = @ - c.tok]
      /\ inflight' = [q \in Requests |->
                        IF q = r THEN [c EXCEPT !.pc = "revoked", !.tok = 0]
                        ELSE IF inflight[q].pc = "listed" /\ inflight[q].email = c.email
                          THEN [inflight[q] EXCEPT !.tok = Max0(@ - c.tok)]
                          ELSE inflight[q]]
      /\ UNCHANGED <<users, userCache, listCache, last>>
      /\ UserFrame

\* createAccessToken: return await User.accessTokens.create(user, ['*'], ...)
tokenCreate(r) ==
  LET c == inflight[r]
  IN  /\ c.pc = "revoked" /\ c.purpose = "login"
      /\ accessTokens' = [accessTokens EXCEPT ![c.email] = @ + 1]
      /\ inflight' = [inflight EXCEPT ![r].pc = "created"]
      /\ UNCHANGED <<users, userCache, listCache, last>>
      /\ UserFrame

\* login: await this.updateLoginMetadata(authUser, ip), await
\* this.cacheUser(authUser), return {token, user}
loginFinish(r) ==
  LET c == inflight[r]
      row == [c.user EXCEPT !.lastLoginAt = now]
  IN  /\ c.pc = "created"
      /\ users' = IF users[c.email].exists
                    THEN [users EXCEPT ![c.email].lastLoginAt = now] ELSE users
      /\ userCache' = [userCache EXCEPT ![c.email] = CacheSet(Serialize(row), USER_CACHE_TTL)]
      /\ Leave(r, [Call("login", "login", c.email, c.ip, WrongGuess) EXCEPT
                     !.ok = TRUE, !.success = TRUE, !.rlChecked = TRUE, !.allowed = TRUE,
                     !.user = Serialize(row)])
      /\ UNCHANGED <<listCache, accessTokens>>
      /\ UserFrame

\* revokeAllTokens: await sharedCache.user.invalidateUser(user.id); return true
logoutFinish(r) ==
  LET c == inflight[r]
  IN  /\ c.pc = "revoked" /\ c.purpose = "logout"
      /\ userCache' = invalidateUser(userCache, c.email)
      /\ listCache' = invalidateList
      /\ Leave(r, [Call("revokeAllTokens", "none", c.email, "", WrongGuess) EXCEPT !.ok = TRUE])
      /\ UNCHANGED <<users, accessTokens>>
      /\ UserFrame

SessionNext ==
  \/ \E id \in Identifiers, pw \in Passwords : create(id, pw)
  \/ \E r \in Requests, raw \in RawIds, pw \in Passwords, ip \in TokenIps :
       loginAdmit(r, raw, pw, ip)
  \/ \E r \in Requests, id \in Identifiers : logoutEnter(r, id)
  \/ \E r \in Requests : tokensList(r)
  \/ \E r \in Requests : tokensDelete(r)
  \/ \E r \in Requests : tokenCreate(r)
  \/ \E r \in Requests : loginFinish(r)
  \/ \E r \in Requests : logoutFinish(r)

SessionSpec == Init /\ [][SessionNext]_vars

\* C38: at most one access token per user: whenever the logins and logouts
\* begun so far have all completed, also logins of one user that ran at the
\* same time, every user holds at most one access token.
C38_AtMostOneAccessToken ==
  (\A r \in Requests : inflight[r].pc \in {"idle", "done"})
    => \A id \in Identifiers : accessTokens[id] <= 1

(* ---------------------------------------------------------------------- *)
(* UserService.createSuperAdmin with the await of checkStartSetup apart   *)
(* from the await of User.create; the setup form may name an address of   *)
(* its own                                                                *)
(* ---------------------------------------------------------------------- *)
SetupEmails == Identifiers \cup {"root"}

UniqueViolation == [message |-> "duplicate key value violates unique constraint",
                    status |-> 500]

\* const startSetup = await this.checkStartSetup(); the throw of the else
setupCheck(r, email, password) ==
  LET local == [Idle EXCEPT !.purpose = "setup", !.email = email, !.password = password]
  IN  /\ inflight[r].pc \in {"idle", "done"}
      /\ IF checkStartSetup
           THEN /\ inflight' = [inflight EXCEPT ![r] = [local EXCEPT !.pc = "clear"]]
                /\ UNCHANGED last
           ELSE /\ inflight' = [inflight EXCEPT ![r] = [local EXCEPT !.pc = "done"]]
                /\ last' = Thrown(Call("createSuperAdmin", "none", email, "", WrongGuess),
                                  "setup", SuperAdminExists)
      /\ UNCHANGED <<users, userCache, listCache, accessTokens>>
      /\ UserFrame

\* payload.role = UserRole.SUPER; payload.isActive = true;
\* await User.create({isDeleted: false, ...payload}); return true
setupCreate(r) ==
  LET c == inflight[r]
      call == Call("createSuperAdmin", "none", c.email, "", WrongGuess)
  IN  /\ c.pc = "clear"
      /\ IF users[c.email].exists
           THEN /\ Leave(r, Thrown(call, "unique", UniqueViolation))
                /\ UNCHANGED users
           ELSE /\ users' = [users EXCEPT ![c.email] =
                               [NewUser EXCEPT !.email = c.email, !.password = c.password,
                                               !.role = "super"]]
                /\ inflight' = [inflight EXCEPT ![r].pc = "done", ![r].mutated = TRUE]
                /\ last' = [call EXCEPT !.ok = TRUE]
      /\ UNCHANGED <<userCache, listCache, accessTokens>>
      /\ UserFrame

\* the table before the setup: no user yet
SetupInit ==
  /\ now = 0
  /\ tokenHash = [k \in TokenKeys |-> NoEntry]
  /\ rateLimit = [k \in RLKeys |-> NoLimit]
  /\ accountBlock = [i \in Identifiers |-> NoEntry]
  /\ users = [i \in SetupEmails |-> NoUser]
  /\ userCache = [i \in Identifiers |-> NoUserEntry]
  /\ listCache = NoListEntry
  /\ nextTok = 1
  /\ issued = [k \in TokenKeys |-> NoIssue]
  /\ failed = [i \in Identifiers |-> NoFailed]
  /\ streak = [k \in LoginKeys |-> NoStreak]
  /\ last = NoCall
  /\ blacklist = {}
  /\ accessTokens = [i \in Identifiers |-> 0]
  /\ inflight = [p \in Requests |-> Idle]
  /\ granted = [k \in TokenLimitKeys |-> NoStreak]
  /\ KeyIdle

SetupNext ==
  \/ \E r \in Requests, email \in SetupEmails, pw \in Passwords : setupCheck(r, email, pw)
  \/ \E r \in Requests : setupCreate(r)
  \/ \E id \in Identifiers, pw \in Passwords : create(id, pw)
  \/ \E id \in Identifiers, active \in BOOLEAN : update(id, active)
  \/ \E id \in Identifiers : delete(id)
  \/ \E id \in Identifiers : findById(id)

SetupSpec == SetupInit /\ [][SetupNext]_vars

\* the super administrators of the table that are not deleted
SuperAdmins ==
  {i \in DOMAIN users : users[i].exists /\ ~users[i].isDeleted /\ users[i].role = "super"}

\* C39: createSuperAdmin creates a super user only when no super user that
\* is not deleted exists: after any calls of createSuperAdmin, calls that
\* ran at the same time included, the table holds at most one such user.
C39_AtMostOneSuperAdmin ==
  (\A r \in Requests : inflight[r].pc \in {"idle", "done"})
    => Cardinality(SuperAdmins) <= 1

====
